---------------------------- MODULE Spec2Model ----------------------------
(***************************************************************************)
(* Model of the Indodax trading bot (src/main.py): the signed exchange     *)
(* client IndodaxAPI, the PnL computation TradingBot.hitung_pnl and the    *)
(* chat message handler of TradingBot.                                     *)
(*                                                                         *)
(* Python strings that the code splits, joins, sorts or signs are modelled *)
(* as sequences of one-character strings, so that split('_'), the '&'/'='  *)
(* join and the lexicographic sort are computed as the code computes them. *)
(* Floats are modelled by naturals (exact rationals in the PnL part, next  *)
(* to floats of FloatBits significant bits where rounding matters); the    *)
(* HMAC-SHA512 digest is modelled symbolically as a collision-free tag of  *)
(* the key and the signed string.  Chat message texts (the rendered reply) *)
(* are abstracted to a record naming the message template and its data.    *)
(***************************************************************************)
EXTENDS Integers, Sequences, FiniteSets, TLC

VARIABLES clock,        \* time.time() * 1000 truncated: the millisecond clock
          turn,         \* parity of the number of client operations invoked
          calls,        \* network calls issued by the last operation / message
          reply,        \* what the last operation / message answered
          last_action,  \* TradingBot.last_action
          history,      \* the exchange's answer to tradeHistory (its JSON body)
          message,      \* the chat message being answered: its sender and text
          env,          \* os.environ: the variables set for the process
          bot,          \* the process: starting, running its TradingBot, stopped
          frames,       \* per thread: the client operation it is executing
          heap          \* the params dicts of the operations in flight

vars == <<clock, turn, calls, reply, last_action, history, message, env, bot,
          frames, heap>>

---------------------------------------------------------------------------
(* Bounds of the model.                                                    *)

StartClock == 9       \* first clock reading (9 -> 10: one and two digits)
MaxTicks == 1         \* the clock is read in StartClock .. StartClock+MaxTicks
MaxElapsed == 1       \* milliseconds that may pass between two calls of one handler

MaxTrades == 4        \* trades in the history the exchange returns
MaxParams == 3        \* parameters of a dict whose query string is built
MaxThreads == 2       \* threads running client operations at the same time
FloatBits == 5        \* significant bits of a float (53 in the program's doubles)

MaxClock == StartClock + MaxTicks

---------------------------------------------------------------------------
(* Python str: sequences of characters, compared by code point.            *)

\* The characters the model uses, in increasing code point order.
UpperChars ==
  <<"A", "B", "C", "D", "E", "F", "G", "H", "I", "J", "K", "L", "M",
    "N", "O", "P", "Q", "R", "S", "T", "U", "V", "W", "X", "Y", "Z">>
LowerChars ==
  <<"a", "b", "c", "d", "e", "f", "g", "h", "i", "j", "k", "l", "m",
    "n", "o", "p", "q", "r", "s", "t", "u", "v", "w", "x", "y", "z">>
DigitChars == <<"0", "1", "2", "3", "4", "5", "6", "7", "8", "9">>

CharOrder ==
  <<"&", "-", ".">> \o DigitChars \o <<"=">> \o UpperChars \o <<"_">> \o LowerChars

CodeTable ==
  [c \in {CharOrder[i] : i \in 1..Len(CharOrder)} |->
     CHOOSE i \in 1..Len(CharOrder) : CharOrder[i] = c]

Code(c) == CodeTable[c]

\* a < b for Python str (lexicographic by code point, a proper prefix is smaller)
RECURSIVE StrLess(_, _)
StrLess(a, b) ==
  IF b = <<>> THEN FALSE
  ELSE IF a = <<>> THEN TRUE
  ELSE IF Head(a) = Head(b) THEN StrLess(Tail(a), Tail(b))
  ELSE Code(Head(a)) < Code(Head(b))

DigitChar(d) == DigitChars[d + 1]

IsDigit(c) == \E d \in 0..9 : DigitChars[d + 1] = c
DigitValue(c) == (CHOOSE i \in 1..10 : DigitChars[i] = c) - 1

\* s.lower()
LowerChar(c) ==
  IF \E i \in 1..26 : UpperChars[i] = c
  THEN LowerChars[CHOOSE i \in 1..26 : UpperChars[i] = c]
  ELSE c
Lower(s) == [i \in 1..Len(s) |-> LowerChar(s[i])]

\* float(s) for the texts the model types: a string of digits is that
\* number, any other text raises ValueError
IsNumber(s) == s # <<>> /\ \A i \in 1..Len(s) : IsDigit(s[i])
RECURSIVE NumberOf(_)
NumberOf(s) ==
  IF s = <<>> THEN 0
  ELSE 10 * NumberOf(SubSeq(s, 1, Len(s) - 1)) + DigitValue(s[Len(s)])

\* str(n) for a non-negative int
RECURSIVE IntStr(_)
IntStr(n) == IF n < 10 THEN <<DigitChar(n)>>
             ELSE IntStr(n \div 10) \o <<DigitChar(n % 10)>>

\* str(x) for a float x holding a non-negative whole number below 1e16
FloatStr(n) == IntStr(n) \o <<".", "0">>

\* s.split(sep)[0] for a one-character sep
RECURSIVE SplitFirst(_, _)
SplitFirst(s, sep) ==
  IF s = <<>> \/ Head(s) = sep THEN <<>>
  ELSE <<Head(s)>> \o SplitFirst(Tail(s), sep)

\* s.split(sep) for a one-character sep: the sequence of the fields
RECURSIVE Split(_, _)
Split(s, sep) ==
  LET first == SplitFirst(s, sep)
  IN IF Len(first) = Len(s) THEN <<first>>
     ELSE <<first>> \o Split(SubSeq(s, Len(first) + 2, Len(s)), sep)

\* sep.join(parts)
RECURSIVE Join(_, _)
Join(parts, sep) ==
  IF parts = <<>> THEN <<>>
  ELSE IF Len(parts) = 1 THEN parts[1]
  ELSE parts[1] \o sep \o Join(Tail(parts), sep)

---------------------------------------------------------------------------
(* Python dict with str keys: the sequence of its <<key, value>> items in  *)
(* insertion order, each key once.                                         *)

EmptyDict == <<>>

Keys(d) == {d[i][1] : i \in 1..Len(d)}

\* d[k] for a key of d
Lookup(d, k) == d[CHOOSE i \in 1..Len(d) : d[i][1] = k][2]

\* d[k] = v: replaces the value of a key already there, else appends the item
RECURSIVE Put(_, _, _)
Put(d, k, v) ==
  IF d = <<>> THEN <<<<k, v>>>>
  ELSE IF Head(d)[1] = k THEN <<<<k, v>>>> \o Tail(d)
  ELSE <<Head(d)>> \o Put(Tail(d), k, v)

\* d.get(k, default)
Get(d, k, default) == IF k \in Keys(d) THEN Lookup(d, k) ELSE default

\* tuple comparison (k1, v1) < (k2, v2) of sorted(): by key, then by value
ItemLess(a, b) == StrLess(a[1], b[1]) \/ (a[1] = b[1] /\ StrLess(a[2], b[2]))

\* sorted(items): insertion of one item into a sorted list, then the sort
RECURSIVE Insert(_, _)
Insert(sorted, item) ==
  IF sorted = <<>> THEN <<item>>
  ELSE IF ItemLess(item, Head(sorted)) THEN <<item>> \o sorted
  ELSE <<Head(sorted)>> \o Insert(Tail(sorted), item)

RECURSIVE Sorted(_)
Sorted(items) ==
  IF items = <<>> THEN <<>>
  ELSE Insert(Sorted(Tail(items)), Head(items))

---------------------------------------------------------------------------
(* String constants of the client.                                         *)

K_method == <<"m", "e", "t", "h", "o", "d">>
K_timestamp == <<"t", "i", "m", "e", "s", "t", "a", "m", "p">>
K_recvWindow == <<"r", "e", "c", "v", "W", "i", "n", "d", "o", "w">>
K_pair == <<"p", "a", "i", "r">>
K_type == <<"t", "y", "p", "e">>
K_price == <<"p", "r", "i", "c", "e">>
K_idr == <<"i", "d", "r">>
K_order_id == <<"o", "r", "d", "e", "r", "_", "i", "d">>
K_count == <<"c", "o", "u", "n", "t">>

M_getInfo == <<"g", "e", "t", "I", "n", "f", "o">>
M_trade == <<"t", "r", "a", "d", "e">>
M_openOrders == <<"o", "p", "e", "n", "O", "r", "d", "e", "r", "s">>
M_cancelOrder == <<"c", "a", "n", "c", "e", "l", "O", "r", "d", "e", "r">>
M_tradeHistory == <<"t", "r", "a", "d", "e", "H", "i", "s", "t", "o", "r", "y">>

BUY == <<"b", "u", "y">>
SELL == <<"s", "e", "l", "l">>
IDR == <<"i", "d", "r">>
COIN == <<"c", "o", "i", "n">>

RecvWindowValue == <<"5", "0", "0", "0">>
DefaultCount == <<"1", "0", "0">>

\* the value of a parameter that was not passed (None): falsy, like ''
None == <<>>

\* self.api_key and self.secret_key of the IndodaxAPI the bot constructed
api_key == bot.api_key
secret_key == bot.secret_key

---------------------------------------------------------------------------
(* The network: what one requests.get / requests.post call comes back with. *)

Exc(msg) == [kind |-> "exc", msg |-> msg]
Json(body) == [kind |-> "json", body |-> body]

\* what a client operation hands to its caller
Return(v) == [kind |-> "return", value |-> v]
Raise(e) == [kind |-> "raise", exc |-> e]

---------------------------------------------------------------------------
(* IndodaxAPI                                                              *)

\* hmac.new(secret, params, sha512).hexdigest(), as a symbolic digest
_get_signature(params) == <<"hmac-sha512", secret_key, params>>

\* '&'.join(f"{k}={v}" for k, v in items)
RECURSIVE JoinItems(_)
JoinItems(items) ==
  IF items = <<>> THEN <<>>
  ELSE LET item == Head(items)[1] \o <<"=">> \o Head(items)[2]
       IN IF Len(items) = 1 THEN item
          ELSE item \o <<"&">> \o JoinItems(Tail(items))

\* mutant: the items are joined in the dict's insertion order, not sorted
query_string_unsorted(params) == JoinItems(params)

\* '&'.join([f"{k}={v}" for k, v in sorted(params.items())])
query_string_of(params) == JoinItems(Sorted(params))

\* mutant: the caller's parameters win over method, timestamp and recvWindow
private_params_keeps_extra(method, params, now) ==
  LET keep(d, k, v) == IF k \in Keys(d) THEN d ELSE Put(d, k, v)
  IN keep(keep(keep(params, K_method, method), K_timestamp, IntStr(now)),
          K_recvWindow, RecvWindowValue)

\* mutant: the timestamp is taken once and reused by every later call
private_params_stale(method, params, now) ==
  Put(Put(Put(params, K_method, method), K_timestamp, IntStr(StartClock)),
      K_recvWindow, RecvWindowValue)

\* params after the three assignments of _private_request
private_params(method, params, now) ==
  Put(Put(Put(params, K_method, method), K_timestamp, IntStr(now)),
      K_recvWindow, RecvWindowValue)

\* mutant: no try/except, the transport exception reaches the caller
private_result_uncaught(outcome) ==
  IF outcome.kind = "exc"
  THEN Raise(outcome.msg)
  ELSE Return(outcome.body)

\* the try/except around requests.post and response.json()
private_result(outcome) ==
  IF outcome.kind = "exc"
  THEN Return([success |-> 0, error |-> outcome.msg])
  ELSE Return(outcome.body)

\* One call of _private_request at clock reading now, the network answering
\* outcome: the request as sent and what the caller gets back.
_private_request(method, params, now, outcome) ==
  LET query_string == query_string_of(private_params(method, params, now))
  IN [verb |-> "POST",
      url |-> "/tapi",
      headers |-> [Key |-> api_key, Sign |-> _get_signature(query_string)],
      data |-> query_string,
      method |-> method,
      extra |-> params,
      at |-> now,
      outcome |-> outcome,
      ret |-> private_result(outcome)]

\* the try/except of get_ticker
ticker_result(outcome) ==
  IF outcome.kind = "exc"
  THEN Return([error |-> outcome.msg])
  ELSE Return(outcome.body)

get_ticker(pair, now, outcome) ==
  [verb |-> "GET",
   url |-> IF pair # None THEN <<"/api/ticker/", pair>> ELSE <<"/api/ticker_all">>,
   headers |-> EmptyDict,
   data |-> <<>>,
   method |-> <<>>,
   extra |-> EmptyDict,
   at |-> now,
   outcome |-> outcome,
   ret |-> ticker_result(outcome)]

get_balance(now, outcome) == _private_request(M_getInfo, EmptyDict, now, outcome)

\* mutant: the amount of a buy in idr goes under the coin key as well
amount_key_always_coin(pair, order_type, amount_type) ==
  SplitFirst(pair, "_")

\* the parameter key create_order puts the amount under
amount_key(pair, order_type, amount_type) ==
  LET coin_name == SplitFirst(pair, "_")
  IN IF order_type = BUY
     THEN IF amount_type = IDR THEN K_idr ELSE coin_name
     ELSE coin_name

order_params(pair, order_type, price, amount, amount_type) ==
  Put(Put(Put(Put(EmptyDict, K_pair, pair), K_type, order_type),
          K_price, FloatStr(price)),
      amount_key(pair, order_type, amount_type), FloatStr(amount))

create_order(pair, order_type, price, amount, amount_type, now, outcome) ==
  _private_request(M_trade,
                   order_params(pair, order_type, price, amount, amount_type),
                   now, outcome)

get_open_orders(pair, now, outcome) ==
  _private_request(M_openOrders,
                   IF pair # None THEN Put(EmptyDict, K_pair, pair) ELSE EmptyDict,
                   now, outcome)

cancel_order(pair, order_id, order_type, now, outcome) ==
  _private_request(M_cancelOrder,
                   Put(Put(Put(EmptyDict, K_pair, pair), K_order_id, order_id),
                       K_type, order_type),
                   now, outcome)

get_trade_history(pair, count, now, outcome) ==
  LET params == Put(EmptyDict, K_count, count)
  IN _private_request(M_tradeHistory,
                      IF pair # None THEN Put(params, K_pair, pair) ELSE params,
                      now, outcome)


---------------------------------------------------------------------------
(* Coins and pairs.                                                        *)

C_usdt == <<"u", "s", "d", "t">>
C_eth == <<"e", "t", "h">>
C_btc == <<"b", "t", "c">>
C_sol == <<"s", "o", "l">>
C_xrp == <<"x", "r", "p">>
C_doge == <<"d", "o", "g", "e">>
C_link == <<"l", "i", "n", "k">>
C_ada == <<"a", "d", "a">>
C_bnb == <<"b", "n", "b">>
C_usdc == <<"u", "s", "d", "c">>
C_trx == <<"t", "r", "x">>
C_ltc == <<"l", "t", "c">>
C_avax == <<"a", "v", "a", "x">>
C_dot == <<"d", "o", "t">>
C_bch == <<"b", "c", "h">>
C_sui == <<"s", "u", "i">>
C_hbar == <<"h", "b", "a", "r">>
C_arb == <<"a", "r", "b">>
C_pol == <<"p", "o", "l">>
C_xlm == <<"x", "l", "m">>

supported_coins ==
  {C_usdt, C_eth, C_btc, C_sol, C_xrp, C_doge, C_link, C_ada, C_bnb, C_usdc,
   C_trx, C_ltc, C_avax, C_dot, C_bch, C_sui, C_hbar, C_arb, C_pol, C_xlm}

\* f"{coin}_idr"
PairOf(coin) == coin \o <<"_", "i", "d", "r">>

---------------------------------------------------------------------------
(* The client driven directly by a caller: one action per operation.       *)

\* pairs of the form <coin>_idr a caller may pass
ClientPairs == {PairOf(C_btc), PairOf(K_idr), PairOf(K_price), PairOf(K_method)}
ClientPrices == {7}
ClientAmounts == {1, 25}
ClientOrderIds == {<<"4", "2">>}
ClientOutcomes == {Exc("timed out"),
                   Json([success |-> 1]),
                   Json([success |-> 0, error |-> "rejected"])}
TickerOutcomes == {Exc("timed out"),
                   Json([ticker |-> [last |-> 7, buy |-> 7, sell |-> 7]]),
                   Json([error |-> "invalid pair"])}

NoReply == [op |-> "none"]
NoMessage == [sender |-> 0, text |-> <<>>]

\* the threads that run client operations, none of them in one
Threads == 1..MaxThreads
NoFrames == [t \in Threads |-> [pc |-> "idle"]]
NoDicts == [ref \in {0} \cup Threads |-> EmptyDict]

\* The environment of the process: each variable is set or not.
Unset == [k \in {} |-> ""]
EnvVar(name, values) == {Unset} \cup {name :> v : v \in values}

Envs ==
  {t @@ o @@ k @@ s :
     t \in EnvVar("BOT_TOKEN", {"TOKEN"}),
     o \in EnvVar("OWNER_ID", {<<"1">>, <<"0">>, <<"x">>}),
     k \in EnvVar("INDODAX_API_KEY", {"", "API_KEY"}),
     s \in EnvVar("INDODAX_SECRET_KEY", {"", "SECRET_KEY"})}

\* os.getenv(name) or ''
getenv_or_empty(name) == IF name \in DOMAIN env THEN env[name] ELSE ""

\* os.getenv('OWNER_ID', '0')
getenv_owner_id == IF "OWNER_ID" \in DOMAIN env THEN env["OWNER_ID"] ELSE <<"0">>

\* int(s)
int(s) == IF IsNumber(s) THEN Return(NumberOf(s)) ELSE Raise("ValueError")

\* mutant: the secret key is left out of the check of the variables
missing_but_secret(bot_token, id, key, secret) ==
  bot_token = "" \/ id = 0 \/ key = ""

\* not all([self.bot_token, self.owner_id, self.api_key, self.secret_key])
missing(bot_token, id, key, secret) ==
  bot_token = "" \/ id = 0 \/ key = "" \/ secret = ""

Starting == [state |-> "starting"]
\* the except ValueError of the main block: "Configuration error: ..."
Stopped(error) == [state |-> "stopped", exc |-> "ValueError", error |-> error]

\* bot = TradingBot(); bot.run() under the try of the main block: the bot
\* holds the client it constructed, or the process has printed its
\* configuration error and ended
TradingBot_owner(id) ==
  IF missing(getenv_or_empty("BOT_TOKEN"), id,
             getenv_or_empty("INDODAX_API_KEY"),
             getenv_or_empty("INDODAX_SECRET_KEY"))
  THEN Stopped("Missing required environment variables")
  ELSE [state |-> "running",
        owner_id |-> id,
        api_key |-> getenv_or_empty("INDODAX_API_KEY"),
        secret_key |-> getenv_or_empty("INDODAX_SECRET_KEY")]

TradingBot ==
  LET id == int(getenv_owner_id)
  IN IF id.kind = "raise" THEN Stopped("invalid literal for int()")
     ELSE TradingBot_owner(id.value)

Running == bot.state = "running"

\* the environment the bot is deployed with
DeployedEnv ==
  [BOT_TOKEN |-> "TOKEN", OWNER_ID |-> <<"1">>,
   INDODAX_API_KEY |-> "API_KEY", INDODAX_SECRET_KEY |-> "SECRET_KEY"]

\* the bot right after TradingBot.__init__: no message handled yet
Constructed ==
  /\ env = DeployedEnv
  /\ bot = TradingBot
  /\ frames = NoFrames
  /\ heap = NoDicts
  /\ clock = StartClock
  /\ turn = 0
  /\ calls = <<>>
  /\ reply = NoReply
  /\ last_action = "unset"
  /\ message = NoMessage

InitClient ==
  /\ Constructed
  /\ history = [success |-> 1, return |-> [trades |-> <<>>]]


\* mutant: a request that failed (transport failure or a failure response) is
\* sent once more
requests_sent_retrying(call) ==
  IF call.outcome.kind = "exc"
       \/ ("success" \in DOMAIN call.outcome.body /\ call.outcome.body.success # 1)
  THEN <<call, call>>
  ELSE <<call>>

\* the requests one invocation of a client operation sends: the single
\* requests.post / requests.get of its body, in no loop
requests_sent(call) == <<call>>

\* the caller gets call.ret back; op and args record what was invoked
Invoke(op, args, call) ==
  /\ Running
  /\ calls' = requests_sent(call)
  /\ reply' = [op |-> op, args |-> args, ret |-> call.ret]
  /\ turn' = 1 - turn
  /\ UNCHANGED <<clock, last_action, history, message, env, bot, frames, heap>>

Tick ==
  /\ clock < MaxClock
  /\ clock' = clock + 1
  /\ UNCHANGED <<turn, calls, reply, last_action, history, message, env, bot, frames, heap>>

CallGetTicker ==
  \E pair \in {None, PairOf(C_btc)}, outcome \in TickerOutcomes :
    Invoke("getTicker", [pair |-> pair], get_ticker(pair, clock, outcome))

CallGetBalance ==
  \E outcome \in ClientOutcomes :
    Invoke("getBalance", EmptyDict, get_balance(clock, outcome))

CallCreateOrder ==
  \E pair \in ClientPairs, order_type \in {BUY, SELL}, price \in ClientPrices,
     amount \in ClientAmounts, amount_type \in {IDR, COIN},
     outcome \in ClientOutcomes :
    Invoke("createOrder",
           [pair |-> pair, order_type |-> order_type, price |-> price,
            amount |-> amount, amount_unit |-> amount_type],
           create_order(pair, order_type, price, amount, amount_type,
                        clock, outcome))

CallGetOpenOrders ==
  \E pair \in {None, PairOf(C_btc)}, outcome \in ClientOutcomes :
    Invoke("getOpenOrders", [pair |-> pair],
           get_open_orders(pair, clock, outcome))

CallCancelOrder ==
  \E pair \in {PairOf(C_btc)}, order_id \in ClientOrderIds,
     order_type \in {BUY, SELL}, outcome \in ClientOutcomes :
    Invoke("cancelOrder",
           [pair |-> pair, order_id |-> order_id, order_type |-> order_type],
           cancel_order(pair, order_id, order_type, clock, outcome))

CallGetTradeHistory ==
  \E pair \in {None, PairOf(C_btc)}, outcome \in ClientOutcomes :
    Invoke("getTradeHistory", [pair |-> pair, count |-> DefaultCount],
           get_trade_history(pair, DefaultCount, clock, outcome))

NextClient ==
  \/ Tick
  \/ CallGetTicker
  \/ CallGetBalance
  \/ CallCreateOrder
  \/ CallGetOpenOrders
  \/ CallCancelOrder
  \/ CallGetTradeHistory

SpecClient == InitClient /\ [][NextClient]_vars

---------------------------------------------------------------------------
(* Reading a request back, as the exchange does.                           *)

\* the <<key, value>> items of a body: fields between '&', key before the first '='
RECURSIVE ParseFields(_)
ParseFields(fields) ==
  IF fields = <<>> THEN <<>>
  ELSE LET kv == Split(Head(fields), "=")
       IN <<<<kv[1], Join(Tail(kv), <<"=">>)>>>> \o ParseFields(Tail(fields))

ParseQuery(body) == ParseFields(Split(body, "&"))

Items(d) == {d[i] : i \in 1..Len(d)}

ControlKeys == {K_method, K_timestamp, K_recvWindow}
OrderKeys == {K_pair, K_type, K_price}

\* the exchange method each private operation names
OpMethod(op) ==
  CASE op = "getBalance" -> M_getInfo
    [] op = "createOrder" -> M_trade
    [] op = "getOpenOrders" -> M_openOrders
    [] op = "cancelOrder" -> M_cancelOrder
    [] op = "getTradeHistory" -> M_tradeHistory

IsPrivate(c) == c.verb = "POST"

---------------------------------------------------------------------------
(* Claims about the client (checked under SpecClient).                     *)

\* C1: every request a private operation sends goes to the private endpoint
\* with a body that is the sorted key=value&... string of its parameters,
\* holding method=<the operation's method>, timestamp=<the time of the call> and
\* recvWindow=5000 once each (also when the extra parameters have those keys),
\* every other extra parameter unchanged, and headers Key = the API key and
\* Sign = the signature of exactly that body.
C1_PrivateRequestsSigned ==
  \A i \in 1..Len(calls) :
    IsPrivate(calls[i]) =>
      LET c == calls[i]
          items == ParseQuery(c.data)
      IN /\ c.url = "/tapi"
         /\ c.data = JoinItems(items)
         /\ \A j \in 1..Len(items), k \in 1..Len(items) :
              j < k => StrLess(items[j][1], items[k][1])
         /\ <<K_method, OpMethod(reply.op)>> \in Items(items)
         /\ <<K_timestamp, IntStr(c.at)>> \in Items(items)
         /\ <<K_recvWindow, <<"5", "0", "0", "0">>>> \in Items(items)
         /\ Keys(items) = Keys(c.extra) \cup ControlKeys
         /\ \A e \in Items(c.extra) : e[1] \notin ControlKeys => e \in Items(items)
         /\ c.headers.Key = api_key
         /\ c.headers.Sign = <<"hmac-sha512", secret_key, c.data>>

\* C1 witness: a private request was sent whose extra parameters already
\* held the key 'method' (a sell order on the pair method_idr).
C1_Witness ==
  /\ Len(calls) = 1
  /\ IsPrivate(calls[1])
  /\ reply.op = "createOrder"
  /\ K_method \in Keys(calls[1].extra)

\* the parameter key the claim C2 expects the amount under
ExpectedAmountKey(args) ==
  IF args.order_type = BUY /\ args.amount_unit = IDR
  THEN <<"i", "d", "r">>
  ELSE Split(args.pair, "_")[1]

\* the request of the last createOrder carries pair, type, price and the
\* amount under exactly the expected key
OrderCarriesAmount ==
  LET items == ParseQuery(calls[1].data)
      key == ExpectedAmountKey(reply.args)
  IN /\ Keys(items) \ ControlKeys = OrderKeys \cup {key}
     /\ Cardinality(OrderKeys \cup {key}) = 4
     /\ Len(items) = 7
     /\ <<key, FloatStr(reply.args.amount)>> \in Items(items)
     /\ <<K_pair, reply.args.pair>> \in Items(items)
     /\ <<K_type, reply.args.order_type>> \in Items(items)
     /\ <<K_price, FloatStr(reply.args.price)>> \in Items(items)

\* C2 as claimed: for every pair <coin>_idr, price and amount, createOrder
\* sends the amount under 'idr' for a buy in idr and under <coin> otherwise,
\* and the request carries exactly one amount key next to pair, type, price.
C2_Original ==
  reply.op = "createOrder" => OrderCarriesAmount

\* C2 amended: the same for every pair whose coin symbol is not itself the
\* name of a request parameter (pair, type, price, method, timestamp,
\* recvWindow); buying the coin 'idr' counts as the key 'idr' either way.
C2_AmountKeyRouting ==
  (/\ reply.op = "createOrder"
   /\ Split(reply.args.pair, "_")[1] \notin OrderKeys \cup ControlKeys)
  => OrderCarriesAmount

\* C2 witness: a buy in coin units was sent (the amount under the coin key).
C2_Witness ==
  /\ reply.op = "createOrder"
  /\ reply.args.order_type = BUY
  /\ reply.args.amount_unit = COIN
  /\ reply.args.pair = PairOf(C_btc)
  /\ <<C_btc, FloatStr(reply.args.amount)>> \in Items(ParseQuery(calls[1].data))

TimestampOf(c) == Lookup(ParseQuery(c.data), K_timestamp)

SameInputs(c, d) ==
  IsPrivate(c) /\ IsPrivate(d) /\ c.method = d.method /\ c.extra = d.extra

\* C3 as claimed: any two calls with the same method and the same extra
\* parameters carry different timestamps and different signatures (stated
\* for two consecutive operations).
C3_Original ==
  [][turn' # turn =>
       \A i \in 1..Len(calls), j \in 1..Len(calls') :
         SameInputs(calls[i], calls'[j]) =>
           /\ TimestampOf(calls[i]) # TimestampOf(calls'[j])
           /\ calls[i].headers.Sign # calls'[j].headers.Sign]_vars

\* C3 amended: every call reads the clock anew: its timestamp is the clock
\* reading in milliseconds at the time of the call, so that two calls with the
\* same method and extra parameters carry different timestamps and different
\* signatures exactly when the clock read differently at the two calls (two
\* calls within one millisecond carry the same timestamp and signature).
C3_FreshTimestamp ==
  /\ [](\A i \in 1..Len(calls) :
          IsPrivate(calls[i]) => TimestampOf(calls[i]) = IntStr(calls[i].at))
  /\ [][turn' # turn =>
          \A j \in 1..Len(calls') :
            IsPrivate(calls'[j]) =>
              /\ calls'[j].at = clock'
              /\ \A i \in 1..Len(calls) :
                   SameInputs(calls[i], calls'[j]) =>
                     /\ (TimestampOf(calls[i]) # TimestampOf(calls'[j]))
                          <=> (calls[i].at # clock')
                     /\ (calls[i].headers.Sign # calls'[j].headers.Sign)
                          <=> (calls[i].at # clock')]_vars

\* C3 witness: a second operation sent a private request after the clock moved.
C3_Witness ==
  /\ turn = 0
  /\ Len(calls) = 1
  /\ IsPrivate(calls[1])
  /\ clock > StartClock
  /\ TimestampOf(calls[1]) = IntStr(clock)

\* C8: no client operation raises: every operation hands a value back to its
\* caller, and when the network call failed (exception or timeout) that value
\* is a failure result carrying the exception message, with a success
\* discriminant other than 1 for the private operations.
C8_TransportFailuresCaught ==
  \A i \in 1..Len(calls) :
    LET c == calls[i]
    IN /\ c.ret.kind = "return"
       /\ c.outcome.kind = "exc" =>
            /\ c.ret.value.error = c.outcome.msg
            /\ IsPrivate(c) => c.ret.value.success # 1
       /\ reply.ret = c.ret

\* C8 witness: the network call of a private operation failed.
C8_Witness ==
  /\ Len(calls) = 1
  /\ IsPrivate(calls[1])
  /\ calls[1].outcome.kind = "exc"
  /\ reply.ret.value.error = "timed out"

---------------------------------------------------------------------------
(* Exact arithmetic for the PnL figures: <<numerator, denominator>> in     *)
(* lowest terms with a positive denominator (the code computes in floats). *)

Abs(x) == IF x < 0 THEN -x ELSE x

RECURSIVE Gcd(_, _)
Gcd(a, b) == IF b = 0 THEN a ELSE Gcd(b, a % b)

Rat(n, d) ==
  LET g == Gcd(Abs(n), Abs(d))
      sign == IF d < 0 THEN -1 ELSE 1
  IN <<(sign * n) \div g, (sign * d) \div g>>

OfInt(n) == <<n, 1>>
RAdd(a, b) == Rat(a[1] * b[2] + b[1] * a[2], a[2] * b[2])
RSub(a, b) == Rat(a[1] * b[2] - b[1] * a[2], a[2] * b[2])
RMul(a, b) == Rat(a[1] * b[1], a[2] * b[2])
RDiv(a, b) == Rat(a[1] * b[2], a[2] * b[1])
RPositive(a) == a[1] > 0

RECURSIVE SumInts(_)
SumInts(xs) == IF xs = <<>> THEN 0 ELSE Head(xs) + SumInts(Tail(xs))

RECURSIVE SumRats(_)
SumRats(xs) == IF xs = <<>> THEN OfInt(0) ELSE RAdd(Head(xs), SumRats(Tail(xs)))

---------------------------------------------------------------------------
(* Float arithmetic: a float holds FloatBits significant bits, and every   *)
(* conversion and operation rounds its exact result to the nearest float,  *)
(* ties to the even one (IEEE 754, at a precision small enough to see the  *)
(* rounding on the numbers of the model).  A float is the rational it      *)
(* holds.                                                                  *)

RECURSIVE Pow2(_)
Pow2(k) == IF k = 0 THEN 1 ELSE 2 * Pow2(k - 1)

\* n / d rounded to the nearest integer, ties to even (n >= 0, d > 0)
RoundHalfEven(n, d) ==
  LET q == n \div d
      r == n % d
  IN IF 2 * r < d THEN q
     ELSE IF 2 * r > d THEN q + 1
     ELSE IF q % 2 = 0 THEN q ELSE q + 1

\* the smallest power of two u >= start with x / u < 2^FloatBits
RECURSIVE UnitUp(_, _)
UnitUp(x, u) ==
  IF x[1] < Pow2(FloatBits) * u * x[2] THEN u ELSE UnitUp(x, 2 * u)

\* the smallest power of two k >= start with x * k >= 2^(FloatBits - 1)
RECURSIVE UnitDown(_, _)
UnitDown(x, k) ==
  IF x[1] * k >= Pow2(FloatBits - 1) * x[2] THEN k ELSE UnitDown(x, 2 * k)

\* a positive rational rounded to FloatBits significant bits
RoundPositive(x) ==
  IF x[1] >= Pow2(FloatBits - 1) * x[2]
  THEN LET u == UnitUp(x, 1) IN Rat(RoundHalfEven(x[1], x[2] * u) * u, 1)
  ELSE LET k == UnitDown(x, 1) IN Rat(RoundHalfEven(x[1] * k, x[2]), k)

\* the float nearest to the rational x
Fl(x) ==
  IF x[1] = 0 THEN x
  ELSE IF x[1] > 0 THEN RoundPositive(x)
  ELSE LET r == RoundPositive(<<-x[1], x[2]>>) IN <<-r[1], r[2]>>

\* float(s) for a string holding the whole number n
Float(n) == Fl(OfInt(n))
FAdd(a, b) == Fl(RAdd(a, b))
FSub(a, b) == Fl(RSub(a, b))
FMul(a, b) == Fl(RMul(a, b))
FDiv(a, b) == Fl(RDiv(a, b))

\* sum(xs): the floats are added one after the other, from 0, in list order
RECURSIVE FSumFrom(_, _)
FSumFrom(acc, xs) ==
  IF xs = <<>> THEN acc ELSE FSumFrom(FAdd(acc, Head(xs)), Tail(xs))
FSum(xs) == FSumFrom(OfInt(0), xs)

---------------------------------------------------------------------------
(* JSON objects of the exchange are records; a chat answer is a record     *)
(* naming the message (kind, text) and the data rendered into it.          *)

Has(d, k) == k \in DOMAIN d

\* the two lookups of d[k1][k2] succeed
Has2(d, k1, k2) == Has(d, k1) /\ Has(d[k1], k2)

\* str(e) of the KeyError a failed lookup d[k] raises: the quoted key
KeyError(k) ==
  [return |-> "'return'", balance |-> "'balance'", trades |-> "'trades'",
   orders |-> "'orders'", order_id |-> "'order_id'", ticker |-> "'ticker'",
   last |-> "'last'", buy |-> "'buy'", sell |-> "'sell'"][k]
\* the same for d[k1][k2], raised by the first lookup that fails
KeyError2(d, k1, k2) == IF ~Has(d, k1) THEN KeyError(k1) ELSE KeyError(k2)

\* d.get('success') == 1
Succeeded(d) == Has(d, "success") /\ d.success = 1

\* d.get('error', 'Unknown error')
ErrorText(d) == IF Has(d, "error") THEN d.error ELSE "Unknown error"

\* a message starting with the cross mark: "<text>: <error>"
Failure(text, error) == [kind |-> "failure", text |-> text, error |-> error]
\* except Exception as e: "Error: <e>"
Error(e) == Failure("Error", e)
\* a message starting with the check mark
Success(text) == [kind |-> "success", text |-> text]
\* any other message
Info(text) == [kind |-> "info", text |-> text]

---------------------------------------------------------------------------
(* TradingBot.hitung_pnl                                                   *)

\* the pairs of the trades in the order pair_trades first sees them
RECURSIVE PairsSeen(_, _)
PairsSeen(trades, seen) ==
  IF trades = <<>> THEN seen
  ELSE PairsSeen(Tail(trades),
                 IF \E i \in 1..Len(seen) : seen[i] = Head(trades).pair
                 THEN seen ELSE Append(seen, Head(trades).pair))

\* mutant: only the first buy of a pair is kept
BuysOf_first_only(trades, pair) ==
  LET test(t) == t.pair = pair /\ t.type = "buy"
      buys == SelectSeq(trades, test)
  IN IF buys = <<>> THEN buys ELSE <<Head(buys)>>

\* pair_trades[pair]['buys'] and pair_trades[pair]['sells']
BuysOf(trades, pair) ==
  LET test(t) == t.pair = pair /\ t.type = "buy" IN SelectSeq(trades, test)
SellsOf(trades, pair) ==
  LET test(t) == t.pair = pair /\ t.type # "buy" IN SelectSeq(trades, test)

total_amount(ts) == SumInts([i \in 1..Len(ts) |-> ts[i].amount])

total_buy_cost(buys) ==
  SumInts([i \in 1..Len(buys) |-> buys[i].price * buys[i].amount + buys[i].fee])

\* mutant: the fee of a sell is added to the proceeds instead of subtracted
total_sell_value_fee_added(sells) ==
  SumInts([i \in 1..Len(sells) |-> sells[i].price * sells[i].amount + sells[i].fee])

total_sell_value(sells) ==
  SumInts([i \in 1..Len(sells) |-> sells[i].price * sells[i].amount - sells[i].fee])

\* total / amount if amount > 0 else 0
average(total, amount) == IF amount > 0 THEN Rat(total, amount) ELSE OfInt(0)

\* mutant: a pair with buys contributes even when nothing was sold
contributes_without_sells(total_sell_amount, avg_buy_price) ==
  RPositive(avg_buy_price)

\* if total_sell_amount > 0 and avg_buy_price > 0
contributes(total_sell_amount, avg_buy_price) ==
  total_sell_amount > 0 /\ RPositive(avg_buy_price)

\* the figures of one pair of pair_trades
pair_figures(trades, pair) ==
  LET buys == BuysOf(trades, pair)
      sells == SellsOf(trades, pair)
      total_buy_amount == total_amount(buys)
      avg_buy_price == average(total_buy_cost(buys), total_buy_amount)
      total_sell_amount == total_amount(sells)
      avg_sell_price == average(total_sell_value(sells), total_sell_amount)
      pnl_per_unit == RSub(avg_sell_price, avg_buy_price)
  IN IF contributes(total_sell_amount, avg_buy_price)
     THEN <<[pair |-> pair,
             avg_buy_price |-> avg_buy_price,
             avg_sell_price |-> avg_sell_price,
             total_pnl_pair |-> RMul(pnl_per_unit, OfInt(total_sell_amount)),
             pnl_percentage |-> RMul(RDiv(pnl_per_unit, avg_buy_price), OfInt(100))]>>
     ELSE <<>>

\* the loop over pair_trades: the entries written to the message, in order
RECURSIVE per_pair_figures(_, _)
per_pair_figures(trades, pairs) ==
  IF pairs = <<>> THEN <<>>
  ELSE pair_figures(trades, Head(pairs)) \o per_pair_figures(trades, Tail(pairs))

\* the entries of the message and total_pnl, in exact arithmetic
exact_pnl(trades) ==
  LET entries == per_pair_figures(trades, PairsSeen(trades, <<>>))
  IN [per_pair |-> entries,
      total_pnl |-> SumRats([i \in 1..Len(entries) |-> entries[i].total_pnl_pair])]

\* The same figures as the floats the code computes them in: every
\* float(...) of a field, every product, sum, difference and quotient is
\* rounded, and sum(...) adds the trades of a pair in list order.
float_amounts(ts) == [i \in 1..Len(ts) |-> Float(ts[i].amount)]

\* t['price'] * t['amount'] + t['fee'] for t in buys
float_buy_costs(buys) ==
  [i \in 1..Len(buys) |->
     FAdd(FMul(Float(buys[i].price), Float(buys[i].amount)), Float(buys[i].fee))]

\* t['price'] * t['amount'] - t['fee'] for t in sells
float_sell_values(sells) ==
  [i \in 1..Len(sells) |->
     FSub(FMul(Float(sells[i].price), Float(sells[i].amount)), Float(sells[i].fee))]

\* total / amount if amount > 0 else 0
float_average(total, amount) ==
  IF RPositive(amount) THEN FDiv(total, amount) ELSE OfInt(0)

\* the floats of one pair of pair_trades
float_pair_figures(trades, pair) ==
  LET buys == BuysOf(trades, pair)
      sells == SellsOf(trades, pair)
      total_buy_amount == FSum(float_amounts(buys))
      avg_buy_price == float_average(FSum(float_buy_costs(buys)), total_buy_amount)
      total_sell_amount == FSum(float_amounts(sells))
      avg_sell_price ==
        float_average(FSum(float_sell_values(sells)), total_sell_amount)
      pnl_per_unit == FSub(avg_sell_price, avg_buy_price)
  IN IF RPositive(total_sell_amount) /\ RPositive(avg_buy_price)
     THEN <<[pair |-> pair,
             avg_buy_price |-> avg_buy_price,
             avg_sell_price |-> avg_sell_price,
             total_pnl_pair |-> FMul(pnl_per_unit, total_sell_amount),
             pnl_percentage |->
               FMul(FDiv(pnl_per_unit, avg_buy_price), OfInt(100))]>>
     ELSE <<>>

RECURSIVE float_per_pair_figures(_, _)
float_per_pair_figures(trades, pairs) ==
  IF pairs = <<>> THEN <<>>
  ELSE float_pair_figures(trades, Head(pairs))
         \o float_per_pair_figures(trades, Tail(pairs))

\* the floats written to the message: the entries, and total_pnl, which
\* starts at 0 and has the PnL of each entry added to it in turn
float_pnl(trades) ==
  LET entries == float_per_pair_figures(trades, PairsSeen(trades, <<>>))
  IN [per_pair |-> entries,
      total_pnl |-> FSum([i \in 1..Len(entries) |-> entries[i].total_pnl_pair])]

\* mutant: an empty trade list is not told apart from any other
no_trades_never(trades) == FALSE

\* if not trades
no_trades(trades) == trades = <<>>

\* mutant: a response is taken as a success whatever it says
history_failed_never(trade_history) == FALSE

\* if trade_history.get('success') != 1
history_failed(trade_history) == ~Succeeded(trade_history)

\* the message hitung_pnl returns for what get_trade_history handed back
pnl_message(trade_history) ==
  IF history_failed(trade_history)
  THEN Failure("Gagal get trade history", ErrorText(trade_history))
  ELSE IF ~Has2(trade_history, "return", "trades")
  THEN Error(KeyError2(trade_history, "return", "trades"))
  ELSE LET trades == trade_history["return"].trades
           exact == exact_pnl(trades)
       IN IF no_trades(trades) THEN Info("Belum ada transaksi")
          ELSE [kind |-> "pnl",
                text |-> "Analisis PnL",
                per_pair |-> exact.per_pair,
                total_pnl |-> exact.total_pnl]

\* A handler runs against the answers of the network, net[1], net[2], ... in
\* the order of its calls: it either needs one more answer or is done with
\* the calls it made and the message it returns.  A handler is written as
\* one operator per call it makes (the call) followed by one for the code
\* that runs once the call has returned.
Need(kind) == [final |-> FALSE, need |-> kind]
Done(cs, response) == [final |-> TRUE, calls |-> cs, response |-> response]

Raised(call) == call.ret.kind = "raise"

\* hitung_pnl once get_trade_history has returned
hitung_pnl_history(call) ==
  Done(<<call>>,
       IF Raised(call) THEN Error(call.ret.exc) ELSE pnl_message(call.ret.value))

\* hitung_pnl at clock reading now
hitung_pnl(now, net) ==
  IF Len(net) < 1 THEN Need("history")
  ELSE hitung_pnl_history(get_trade_history(None, DefaultCount, now, net[1]))

---------------------------------------------------------------------------
(* TradingBot: balance, prices, sell-all and buy-all.                      *)

MinIdr == 10000

\* float(balances.get(coin, 0))
BalanceGet(balances, coin) == IF coin \in DOMAIN balances THEN balances[coin] ELSE 0

main_pairs ==
  {PairOf(C_usdt), PairOf(C_eth), PairOf(C_btc), PairOf(C_sol), PairOf(C_xrp),
   PairOf(C_doge), PairOf(C_link), PairOf(C_ada), PairOf(C_bnb), PairOf(C_usdc)}

\* get_harga_koin once get_ticker has returned
get_harga_koin_ticker(c1) ==
  LET ticker_data == c1.ret.value
  IN IF Raised(c1) THEN Done(<<c1>>, Error(c1.ret.exc))
     ELSE IF ~Has(ticker_data, "tickers")
     THEN Done(<<c1>>, Failure("Gagal mengambil data harga", ""))
     ELSE IF \E pair \in main_pairs \cap DOMAIN ticker_data.tickers :
               ~Has(ticker_data.tickers[pair], "last")
     THEN Done(<<c1>>, Error(KeyError("last")))
     ELSE Done(<<c1>>, [kind |-> "prices", text |-> "Harga Koin Terkini",
                        tickers |-> ticker_data.tickers])

get_harga_koin(now, net) ==
  IF Len(net) < 1 THEN Need("tickers")
  ELSE get_harga_koin_ticker(get_ticker(None, now, net[1]))

\* the balance response cannot be used: the message telling so
balance_unusable(c1) ==
  LET balance_data == c1.ret.value
  IN IF Raised(c1) THEN Error(c1.ret.exc)
     ELSE IF ~Succeeded(balance_data)
     THEN Failure("Gagal cek saldo", ErrorText(balance_data))
     ELSE Error(KeyError2(balance_data, "return", "balance"))

\* balance_data.get('success') == 1 and balance_data['return']['balance'] is there
balance_usable(c1) ==
  /\ ~Raised(c1)
  /\ Succeeded(c1.ret.value)
  /\ Has2(c1.ret.value, "return", "balance")

\* cek_saldo_detail once get_ticker has returned
cek_saldo_detail_ticker(c1, c2) ==
  LET ticker_data == c2.ret.value
      balances == c1.ret.value["return"].balance
  IN IF Raised(c2) THEN Done(<<c1, c2>>, Error(c2.ret.exc))
     ELSE IF /\ Has(ticker_data, "tickers")
             /\ \E coin \in supported_coins \cap DOMAIN balances :
                  /\ balances[coin] > 0
                  /\ PairOf(coin) \in DOMAIN ticker_data.tickers
                  /\ ~Has(ticker_data.tickers[PairOf(coin)], "last")
     THEN Done(<<c1, c2>>, Error(KeyError("last")))
     ELSE Done(<<c1, c2>>, [kind |-> "balance", text |-> "Saldo Akun",
                            balances |-> balances])

\* cek_saldo_detail once get_balance has returned
cek_saldo_detail_balance(c1, now, net) ==
  IF ~balance_usable(c1) THEN Done(<<c1>>, balance_unusable(c1))
  ELSE IF Len(net) < 2 THEN Need("tickers")
  ELSE cek_saldo_detail_ticker(c1, get_ticker(None, now, net[2]))

cek_saldo_detail(now, net) ==
  IF Len(net) < 1 THEN Need("balance")
  ELSE cek_saldo_detail_balance(get_balance(now, net[1]), now, net)

\* mutant: the order's response is taken as a success whatever it says
order_accepted_always(result) == TRUE

\* if result.get('success') == 1, for the response of an order or a cancel
order_accepted(result) == Succeeded(result)

\* jual_semua once create_order has returned
jual_semua_order(c1, c2, c3) ==
  LET result == c3.ret.value
  IN IF Raised(c3) THEN Done(<<c1, c2, c3>>, Error(c3.ret.exc))
     ELSE IF order_accepted(result)
     THEN IF Has2(result, "return", "order_id")
          THEN Done(<<c1, c2, c3>>, Success("Jual Semua Berhasil"))
          ELSE Done(<<c1, c2, c3>>, Error(KeyError2(result, "return", "order_id")))
     ELSE Done(<<c1, c2, c3>>, Failure("Gagal jual", ErrorText(result)))

\* jual_semua once get_ticker has returned
jual_semua_ticker(pair, coin_balance, c1, c2, later, net) ==
  LET ticker_data == c2.ret.value
  IN IF Raised(c2) THEN Done(<<c1, c2>>, Error(c2.ret.exc))
     ELSE IF ~Has(ticker_data, "ticker")
     THEN Done(<<c1, c2>>, Failure("Gagal get harga", ""))
     ELSE IF ~Has(ticker_data.ticker, "buy")
     THEN Done(<<c1, c2>>, Error(KeyError("buy")))
     ELSE IF Len(net) < 3 THEN Need("order")
     ELSE jual_semua_order(c1, c2,
            create_order(pair, SELL, ticker_data.ticker.buy, coin_balance, COIN,
                         later, net[3]))

\* jual_semua once get_balance has returned
jual_semua_balance(coin, c1, later, net) ==
  IF ~balance_usable(c1) THEN Done(<<c1>>, balance_unusable(c1))
  ELSE LET coin_balance == BalanceGet(c1.ret.value["return"].balance, Lower(coin))
           pair == PairOf(Lower(coin))
       IN IF coin_balance <= 0 THEN Done(<<c1>>, Failure("Tidak ada saldo", ""))
          ELSE IF Len(net) < 2 THEN Need("ticker")
          ELSE jual_semua_ticker(pair, coin_balance, c1,
                                 get_ticker(pair, later, net[2]), later, net)

\* jual_semua(coin): getInfo at now, the ticker and the order at later
jual_semua(coin, now, later, net) ==
  IF Len(net) < 1 THEN Need("balance")
  ELSE jual_semua_balance(coin, get_balance(now, net[1]), later, net)

\* beli_semua_idr once create_order has returned
beli_semua_idr_order(c1, c2, c3) ==
  LET result == c3.ret.value
  IN IF Raised(c3) THEN Done(<<c1, c2, c3>>, Error(c3.ret.exc))
     ELSE IF order_accepted(result)
     THEN IF Has2(result, "return", "order_id")
          THEN Done(<<c1, c2, c3>>, Success("Beli dengan Semua IDR Berhasil"))
          ELSE Done(<<c1, c2, c3>>, Error(KeyError2(result, "return", "order_id")))
     ELSE Done(<<c1, c2, c3>>, Failure("Gagal beli", ErrorText(result)))

\* beli_semua_idr once get_ticker has returned
beli_semua_idr_ticker(pair, idr_balance, c1, c2, later, net) ==
  LET ticker_data == c2.ret.value
  IN IF Raised(c2) THEN Done(<<c1, c2>>, Error(c2.ret.exc))
     ELSE IF ~Has(ticker_data, "ticker")
     THEN Done(<<c1, c2>>, Failure("Gagal get harga", ""))
     ELSE IF ~Has(ticker_data.ticker, "sell")
     THEN Done(<<c1, c2>>, Error(KeyError("sell")))
     ELSE IF ticker_data.ticker.sell = 0
     THEN Done(<<c1, c2>>, Error("float division by zero"))
     ELSE IF Len(net) < 3 THEN Need("order")
     ELSE beli_semua_idr_order(c1, c2,
            create_order(pair, BUY, ticker_data.ticker.sell, idr_balance, IDR,
                         later, net[3]))

\* mutant: a balance of exactly the minimum is enough
idr_insufficient_below(idr_balance) == idr_balance < MinIdr

\* if idr_balance <= 10000
idr_insufficient(idr_balance) == idr_balance <= MinIdr

\* beli_semua_idr once get_balance has returned
beli_semua_idr_balance(coin, c1, later, net) ==
  IF ~balance_usable(c1) THEN Done(<<c1>>, balance_unusable(c1))
  ELSE LET idr_balance == BalanceGet(c1.ret.value["return"].balance, K_idr)
           pair == PairOf(Lower(coin))
       IN IF idr_insufficient(idr_balance)
          THEN Done(<<c1>>, Failure("Saldo IDR tidak mencukupi", ""))
          ELSE IF Len(net) < 2 THEN Need("ticker")
          ELSE beli_semua_idr_ticker(pair, idr_balance, c1,
                                     get_ticker(pair, later, net[2]), later, net)

\* beli_semua_idr(coin): getInfo at now, the ticker and the order at later
beli_semua_idr(coin, now, later, net) ==
  IF Len(net) < 1 THEN Need("balance")
  ELSE beli_semua_idr_balance(coin, get_balance(now, net[1]), later, net)

---------------------------------------------------------------------------
(* Message texts.  A button caption (its emoji and words) is one symbol;   *)
(* a typed command is its characters.                                      *)

Caption(name) == <<name>>

Sp == " "
S_sol == <<"/", "s", "o", "l">>
S_solbuy == S_sol \o <<"b", "u", "y">>
S_solsell == S_sol \o <<"s", "e", "l", "l">>
S_solbuyall == S_solbuy \o <<"a", "l", "l">>
S_solsellall == S_solsell \o <<"a", "l", "l">>
S_buy == <<"/", "b", "u", "y">>
S_sell == <<"/", "s", "e", "l", "l">>
S_sellall == S_sell \o <<"a", "l", "l">>
S_buyall == S_buy \o <<"a", "l", "l">>
S_cancel == <<"/", "c", "a", "n", "c", "e", "l">>
S_start == <<"/", "s", "t", "a", "r", "t">>

\* text.startswith(prefix)
StartsWith(text, prefix) ==
  Len(text) >= Len(prefix) /\ SubSeq(text, 1, Len(prefix)) = prefix

\* text.split(): the fields between runs of spaces
SplitWords(text) == SelectSeq(Split(text, Sp), LAMBDA part : part # <<>>)

\* the coin buttons and coin_map
coin_map ==
  [USDT |-> C_usdt, ETH |-> C_eth, BTC |-> C_btc, SOL |-> C_sol, XRP |-> C_xrp,
   DOGE |-> C_doge, LINK |-> C_link, ADA |-> C_ada, BNB |-> C_bnb,
   USDC |-> C_usdc, TRX |-> C_trx, LTC |-> C_ltc]

IsCoinButton(text) == Len(text) = 1 /\ text[1] \in DOMAIN coin_map

\* the help texts that only describe a command format
HelpCaptions ==
  {"Beli Manual", "Jual Manual", "Beli Koin", "Jual Koin", "Jual Semua ke IDR",
   "Cancel Order"}

---------------------------------------------------------------------------
(* message_handler: the branches that place or cancel orders.              *)

\* the message handler's answer: the calls made, the message sent and the
\* value last_action is left with
Sent(cs, response, la) ==
  [final |-> TRUE, calls |-> cs, response |-> response, last_action |-> la]

\* the answer of a helper that has finished, or its need of one more answer
From(h, la) == IF h.final THEN Sent(h.calls, h.response, la) ELSE h

FormatError(usage) == Failure("Format salah", usage)
NotANumber == Failure("Jumlah harus berupa angka", "")
Unsupported == Failure("Koin tidak didukung", "")

\* /buy and /solbuy once create_order has returned; a /solbuy reply shows
\* result['return']['order_id'], a /buy reply does not
buy_order(cs, la, ask_price, shows_order_id, failed, succeeded) ==
  LET result == cs[2].ret.value
  IN IF Raised(cs[2]) THEN Sent(cs, Error(cs[2].ret.exc), la)
     ELSE IF order_accepted(result)
     THEN IF ask_price = 0 THEN Sent(cs, Error("float division by zero"), la)
          ELSE IF shows_order_id /\ ~Has2(result, "return", "order_id")
          THEN Sent(cs, Error(KeyError2(result, "return", "order_id")), la)
          ELSE Sent(cs, Success(succeeded), la)
     ELSE Sent(cs, Failure(failed, ErrorText(result)), la)

\* /sell and /solsell once create_order has returned
sell_order(cs, la, shows_order_id, failed, succeeded) ==
  LET result == cs[2].ret.value
  IN IF Raised(cs[2]) THEN Sent(cs, Error(cs[2].ret.exc), la)
     ELSE IF order_accepted(result)
     THEN IF shows_order_id /\ ~Has2(result, "return", "order_id")
          THEN Sent(cs, Error(KeyError2(result, "return", "order_id")), la)
          ELSE Sent(cs, Success(succeeded), la)
     ELSE Sent(cs, Failure(failed, ErrorText(result)), la)

\* the ticker response cannot be used for an order: the message telling so
ticker_unusable(c1, price_key, no_ticker) ==
  IF Raised(c1) THEN Error(c1.ret.exc)
  ELSE IF ~Has(c1.ret.value, "ticker") THEN Failure(no_ticker, "")
  ELSE Error(KeyError(price_key))

\* 'ticker' in ticker_data, and ticker_data['ticker'][price_key] is there
ticker_usable(c1, price_key) ==
  ~Raised(c1) /\ Has2(c1.ret.value, "ticker", price_key)

\* /buy once get_ticker has returned
on_buy_ticker(pair, amount_idr, c1, la, now, net) ==
  IF ~ticker_usable(c1, "sell")
  THEN Sent(<<c1>>, ticker_unusable(c1, "sell", "Pair tidak valid"), la)
  ELSE IF Len(net) < 2 THEN Need("order")
  ELSE buy_order(<<c1, create_order(pair, BUY, c1.ret.value.ticker.sell,
                                    amount_idr, IDR, now, net[2])>>,
                 la, c1.ret.value.ticker.sell, FALSE,
                 "Gagal buy", "Order Buy Berhasil")

\* elif text.startswith('/buy ')
on_buy(text, la, now, net) ==
  LET parts == SplitWords(text)
  IN IF Len(parts) # 3 THEN Sent(<<>>, FormatError("/buy [pair] [jumlah_idr]"), la)
     ELSE IF ~IsNumber(parts[3]) THEN Sent(<<>>, NotANumber, la)
     ELSE IF Len(net) < 1 THEN Need("ticker")
     ELSE on_buy_ticker(Lower(parts[2]), NumberOf(parts[3]),
                        get_ticker(Lower(parts[2]), now, net[1]), la, now, net)

\* /sell once get_ticker has returned
on_sell_ticker(pair, amount_coin, c1, la, now, net) ==
  IF ~ticker_usable(c1, "buy")
  THEN Sent(<<c1>>, ticker_unusable(c1, "buy", "Pair tidak valid"), la)
  ELSE IF Len(net) < 2 THEN Need("order")
  ELSE sell_order(<<c1, create_order(pair, SELL, c1.ret.value.ticker.buy,
                                     amount_coin, COIN, now, net[2])>>,
                  la, FALSE, "Gagal sell", "Order Sell Berhasil")

\* elif text.startswith('/sell ')
on_sell(text, la, now, net) ==
  LET parts == SplitWords(text)
  IN IF Len(parts) # 3 THEN Sent(<<>>, FormatError("/sell [pair] [jumlah_koin]"), la)
     ELSE IF ~IsNumber(parts[3]) THEN Sent(<<>>, NotANumber, la)
     ELSE IF Len(net) < 1 THEN Need("ticker")
     ELSE on_sell_ticker(Lower(parts[2]), NumberOf(parts[3]),
                         get_ticker(Lower(parts[2]), now, net[1]), la, now, net)

\* /solbuy once get_ticker has returned
on_solbuy_ticker(amount_idr, c1, la, now, net) ==
  IF ~ticker_usable(c1, "sell")
  THEN Sent(<<c1>>, ticker_unusable(c1, "sell", "Gagal get harga SOL"), la)
  ELSE IF Len(net) < 2 THEN Need("order")
  ELSE buy_order(<<c1, create_order(PairOf(C_sol), BUY, c1.ret.value.ticker.sell,
                                    amount_idr, IDR, now, net[2])>>,
                 la, c1.ret.value.ticker.sell, TRUE,
                 "Gagal beli SOL", "Beli SOL Berhasil")

\* elif text.startswith('/solbuy ')
on_solbuy(text, la, now, net) ==
  LET parts == SplitWords(text)
  IN IF Len(parts) # 2 THEN Sent(<<>>, FormatError("/solbuy [jumlah_idr]"), la)
     ELSE IF ~IsNumber(parts[2]) THEN Sent(<<>>, NotANumber, la)
     ELSE IF Len(net) < 1 THEN Need("ticker")
     ELSE on_solbuy_ticker(NumberOf(parts[2]),
                           get_ticker(PairOf(C_sol), now, net[1]), la, now, net)

\* /solsell once get_ticker has returned
on_solsell_ticker(amount_sol, c1, la, now, net) ==
  IF ~ticker_usable(c1, "buy")
  THEN Sent(<<c1>>, ticker_unusable(c1, "buy", "Gagal get harga SOL"), la)
  ELSE IF Len(net) < 2 THEN Need("order")
  ELSE sell_order(<<c1, create_order(PairOf(C_sol), SELL, c1.ret.value.ticker.buy,
                                     amount_sol, COIN, now, net[2])>>,
                  la, TRUE, "Gagal jual SOL", "Jual SOL Berhasil")

\* elif text.startswith('/solsell ')
on_solsell(text, la, now, net) ==
  LET parts == SplitWords(text)
  IN IF Len(parts) # 2 THEN Sent(<<>>, FormatError("/solsell [jumlah_sol]"), la)
     ELSE IF ~IsNumber(parts[2]) THEN Sent(<<>>, NotANumber, la)
     ELSE IF Len(net) < 1 THEN Need("ticker")
     ELSE on_solsell_ticker(NumberOf(parts[2]),
                            get_ticker(PairOf(C_sol), now, net[1]), la, now, net)

\* elif text.startswith('/sellall ')
on_sellall(text, la, now, later, net) ==
  LET parts == SplitWords(text)
  IN IF Len(parts) # 2 THEN Sent(<<>>, FormatError("/sellall [koin]"), la)
     ELSE IF Lower(parts[2]) \in supported_coins
     THEN From(jual_semua(Lower(parts[2]), now, later, net), la)
     ELSE Sent(<<>>, Unsupported, la)

\* elif text.startswith('/buyall ')
on_buyall(text, la, now, later, net) ==
  LET parts == SplitWords(text)
  IN IF Len(parts) # 2 THEN Sent(<<>>, FormatError("/buyall [koin]"), la)
     ELSE IF Lower(parts[2]) \in supported_coins
     THEN From(beli_semua_idr(Lower(parts[2]), now, later, net), la)
     ELSE Sent(<<>>, Unsupported, la)

\* /cancel once cancel_order has returned
on_cancel_result(c1, la) ==
  IF Raised(c1) THEN Sent(<<c1>>, Error(c1.ret.exc), la)
  ELSE IF order_accepted(c1.ret.value)
  THEN Sent(<<c1>>, Success("Order berhasil dibatalkan"), la)
  ELSE Sent(<<c1>>, Failure("Gagal cancel order", ErrorText(c1.ret.value)), la)

\* elif text.startswith('/cancel ')
on_cancel(text, la, now, net) ==
  LET parts == SplitWords(text)
  IN IF Len(parts) # 4
     THEN Sent(<<>>, FormatError("/cancel [pair] [order_id] [type]"), la)
     ELSE IF Len(net) < 1 THEN Need("cancel")
     ELSE on_cancel_result(cancel_order(Lower(parts[2]), parts[3], Lower(parts[4]),
                                        now, net[1]), la)

\* "Order Aktif" once get_open_orders has returned
on_open_orders_result(c1, la) ==
  LET orders == c1.ret.value
  IN IF Raised(c1) THEN Sent(<<c1>>, Error(c1.ret.exc), la)
     ELSE IF Succeeded(orders)
     THEN IF ~Has2(orders, "return", "orders")
          THEN Sent(<<c1>>, Error(KeyError2(orders, "return", "orders")), la)
          ELSE IF orders["return"].orders = <<>>
          THEN Sent(<<c1>>, Info("Tidak ada order aktif"), la)
          ELSE Sent(<<c1>>, [kind |-> "orders", text |-> "Order Aktif",
                             orders |-> orders["return"].orders], la)
     ELSE Sent(<<c1>>, Failure("Gagal get orders", ErrorText(orders)), la)

\* elif text == "Order Aktif"
on_open_orders(la, now, net) ==
  IF Len(net) < 1 THEN Need("orders")
  ELSE on_open_orders_result(get_open_orders(None, now, net[1]), la)

\* the handler did not return: an exception left it, nothing was sent
Crashed(cs, e, la) ==
  Sent(cs, [kind |-> "crash", text |-> "", error |-> e], la)

\* a coin button with no pending action, once get_ticker has returned
on_coin_button_ticker(c1, la) ==
  LET ticker_data == c1.ret.value
  IN IF Raised(c1) THEN Crashed(<<c1>>, c1.ret.exc, la)
     ELSE IF Has(ticker_data, "ticker")
     THEN IF Has(ticker_data.ticker, "last")
          THEN Sent(<<c1>>, [kind |-> "price", text |-> "IDR",
                             price |-> ticker_data.ticker.last], la)
          ELSE Crashed(<<c1>>, KeyError("last"), la)
     ELSE Sent(<<c1>>, Failure("Gagal get harga", ""), la)

\* elif text in [the coin buttons]
on_coin_button(text, la, now, later, net) ==
  IF la = "buy_all"
  THEN From(beli_semua_idr(coin_map[text[1]], now, later, net), "none")
  ELSE IF la = "sell_all"
  THEN From(jual_semua(coin_map[text[1]], now, later, net), "none")
  ELSE IF Len(net) < 1 THEN Need("ticker")
  ELSE on_coin_button_ticker(get_ticker(PairOf(coin_map[text[1]]), now, net[1]), la)

\* elif text.startswith('/sol')
on_sol(text, la, now, later, net) ==
  IF text = S_solbuy THEN Sent(<<>>, Info("Beli Solana (SOL)"), la)
  ELSE IF text = S_solsell THEN Sent(<<>>, Info("Jual Solana (SOL)"), la)
  ELSE IF text = S_solbuyall THEN From(beli_semua_idr(C_sol, now, later, net), la)
  ELSE IF text = S_solsellall THEN From(jual_semua(C_sol, now, later, net), la)
  ELSE IF StartsWith(text, S_solbuy \o <<Sp>>) THEN on_solbuy(text, la, now, net)
  ELSE IF StartsWith(text, S_solsell \o <<Sp>>) THEN on_solsell(text, la, now, net)
  ELSE Sent(<<>>, Info("Solana (SOL) Trading"), la)

---------------------------------------------------------------------------
(* message_handler and start_handler.                                      *)

\* self.owner_id of the TradingBot
owner_id == bot.owner_id

\* mutant: every sender passes for the owner
is_owner_anyone(user_id) == TRUE

is_owner(user_id) == user_id = owner_id

Denied == [kind |-> "denied", text |-> "Kamu tidak punya akses ke bot ini"]

\* if not hasattr(self, 'last_action'): self.last_action = None
initialized(la) == IF la = "unset" THEN "none" ELSE la

\* message_handler for one message: text sent by user sender while
\* last_action holds la0, the clock reading now at its first call and later
\* at its last, the network answering net
message_handler(sender, text, la0, now, later, net) ==
  LET la == initialized(la0)
  IN IF ~is_owner(sender) THEN Sent(<<>>, Denied, la)
     ELSE IF text = Caption("Harga Koin") THEN From(get_harga_koin(now, net), la)
     ELSE IF text = Caption("Beli SOL")
     THEN From(beli_semua_idr(C_sol, now, later, net), la)
     ELSE IF text = Caption("Jual SOL")
     THEN From(jual_semua(C_sol, now, later, net), la)
     ELSE IF text = Caption("Beli All IDR")
     THEN Sent(<<>>, Info("Pilih Koin untuk Beli dengan Semua IDR"), "buy_all")
     ELSE IF text = Caption("Jual All ke IDR")
     THEN Sent(<<>>, Info("Pilih Koin untuk Jual Semua ke IDR"), "sell_all")
     ELSE IF text \in {Caption("Beli Manual"), Caption("Jual Manual")}
     THEN Sent(<<>>, Info(text[1]), la)
     ELSE IF text = Caption("PnL") THEN From(hitung_pnl(now, net), la)
     ELSE IF IsCoinButton(text) THEN on_coin_button(text, la, now, later, net)
     ELSE IF text = Caption("Kembali")
     THEN Sent(<<>>, Info("Kembali ke menu utama"), la)
     ELSE IF text = Caption("Cek Saldo") THEN From(cek_saldo_detail(now, net), la)
     ELSE IF StartsWith(text, S_sol) THEN on_sol(text, la, now, later, net)
     ELSE IF text \in {Caption("Beli Koin"), Caption("Jual Koin"),
                       Caption("Jual Semua ke IDR")}
     THEN Sent(<<>>, Info(text[1]), la)
     ELSE IF text = Caption("Order Aktif") THEN on_open_orders(la, now, net)
     ELSE IF text = Caption("Cancel Order") THEN Sent(<<>>, Info(text[1]), la)
     ELSE IF text = Caption("Keuntungan/Rugi (PnL)")
     THEN From(hitung_pnl(now, net), la)
     ELSE IF StartsWith(text, S_buy \o <<Sp>>) THEN on_buy(text, la, now, net)
     ELSE IF StartsWith(text, S_sell \o <<Sp>>) THEN on_sell(text, la, now, net)
     ELSE IF StartsWith(text, S_sellall \o <<Sp>>)
     THEN on_sellall(text, la, now, later, net)
     ELSE IF StartsWith(text, S_buyall \o <<Sp>>)
     THEN on_buyall(text, la, now, later, net)
     ELSE IF StartsWith(text, S_cancel \o <<Sp>>) THEN on_cancel(text, la, now, net)
     ELSE Sent(<<>>, Failure("Menu tidak dikenal", ""), la)

\* start_handler: it neither reads nor writes last_action
start_handler(sender, la0) ==
  IF ~is_owner(sender) THEN Sent(<<>>, Denied, la0)
  ELSE Sent(<<>>, Info("Bot Trading Indodax"), la0)

---------------------------------------------------------------------------
(* The chat: messages arrive one at a time, the handler answers each.      *)

\* what the exchange may answer to each kind of request
BalanceAnswers ==
  {Exc("timed out"),
   Json([success |-> 0, error |-> "Invalid credentials"]),
   Json([success |-> 1]),
   Json([success |-> 1, return |-> [balance |-> (K_idr :> 20000) @@ (C_sol :> 2)]]),
   Json([success |-> 1, return |-> [balance |-> (K_idr :> MinIdr) @@ (C_sol :> 0)]])}

TickerAnswers ==
  {Exc("timed out"),
   Json([error |-> "invalid_pair"]),
   Json([ticker |-> [last |-> 7, buy |-> 7, sell |-> 7]]),
   Json([ticker |-> [last |-> 0, buy |-> 0, sell |-> 0]]),
   Json([ticker |-> [server_time |-> 1]])}

AllTickerAnswers ==
  {Exc("timed out"),
   Json([error |-> "maintenance"]),
   Json([tickers |-> (PairOf(C_sol) :> [last |-> 7])]),
   Json([tickers |-> (PairOf(C_sol) :> [high |-> 7])])}

OrderAnswers ==
  {Exc("timed out"),
   Json([success |-> 0, error |-> "Insufficient balance"]),
   Json([success |-> 0]),
   Json([success |-> 1]),
   Json([success |-> 1, return |-> [order_id |-> 42]])}

OpenOrdersAnswers ==
  {Exc("timed out"),
   Json([success |-> 0, error |-> "Invalid credentials"]),
   Json([success |-> 1]),
   Json([success |-> 1, return |-> [orders |-> <<>>]]),
   Json([success |-> 1,
         return |-> [orders |-> <<[pair |-> PairOf(C_sol), type |-> "buy",
                                   price |-> 7, remain_amount |-> 1,
                                   order_id |-> 42]>>]])}

CancelAnswers ==
  {Exc("timed out"),
   Json([success |-> 0, error |-> "Order not found"]),
   Json([success |-> 1])}

AnswersFor(kind) ==
  CASE kind = "balance" -> BalanceAnswers
    [] kind = "ticker" -> TickerAnswers
    [] kind = "tickers" -> AllTickerAnswers
    [] kind = "order" -> OrderAnswers
    [] kind = "orders" -> OpenOrdersAnswers
    [] kind = "cancel" -> CancelAnswers
    [] kind = "history" -> {Exc("timed out"), Json(history)}

\* the handler has returned: its calls were made, its message was sent
\* The handler has come to r for the message text of sender, on the worker
\* w that read last_action before it turned to the exchange (w = 0: in one
\* piece).  What the handler assigned to last_action is written.
Deliver(sender, text, r, later, w) ==
  /\ Running
  /\ calls' = r.calls
  /\ reply' = r.response
  /\ last_action' = IF w = 0 \/ frames[w].la # r.last_action
                    THEN r.last_action
                    ELSE last_action
  /\ frames' = IF w = 0 THEN frames ELSE [frames EXCEPT ![w] = [pc |-> "idle"]]
  /\ message' = [sender |-> sender, text |-> text]
  /\ clock' = later
  /\ UNCHANGED <<turn, history, env, bot, heap>>

\* message_handler run to its end: what it can come to, the network
\* answering each of its calls with any answer of the exchange
RECURSIVE Results(_, _, _, _, _, _)
Continue(r, sender, text, la0, now, later, net) ==
  IF r.final THEN {r}
  ELSE UNION {Results(sender, text, la0, now, later, Append(net, a)) :
                a \in AnswersFor(r.need)}
Results(sender, text, la0, now, later, net) ==
  Continue(message_handler(sender, text, la0, now, later, net),
           sender, text, la0, now, later, net)

\* no message is being answered
Idle == reply = NoReply

\* message_handler answers the message text of sender, having found la in
\* last_action
Answer(sender, text, la, w) ==
  \E d \in 0..MaxElapsed :
    /\ clock + d <= MaxClock
    /\ \E r \in Results(sender, text, la, clock, clock + d, <<>>) :
         Deliver(sender, text, r, clock + d, w)

\* message_handler answers the message text of sender in one piece
Handle(sender, text) == Answer(sender, text, last_action, 0)

\* the bot takes the next update from the chat
Poll ==
  /\ ~Idle
  /\ reply' = NoReply
  /\ calls' = <<>>
  /\ message' = NoMessage
  /\ UNCHANGED <<clock, turn, last_action, history, env, bot, frames, heap>>

Line(words) == Join(words, <<Sp>>)

W_foo == <<"f", "o", "o">>
W_x == <<"x">>
W_5 == <<"5">>
W_42 == <<"4", "2">>
W_42_type_sell == W_42 \o <<"&", "t", "y", "p", "e", "=", "s", "e", "l", "l">>
W_buy == <<"b", "u", "y">>
W_BTC_idr == <<"B", "T", "C", "_", "i", "d", "r">>
W_SOL == <<"S", "O", "L">>

Strangers == {owner_id + 1}

OwnerSends(text) == Handle(owner_id, text)

StartCommand ==
  /\ Idle
  /\ \E sender \in {owner_id} \cup Strangers :
       Deliver(sender, S_start, start_handler(sender, last_action), clock, 0)

StrangerSends ==
  /\ Idle
  /\ \E sender \in Strangers,
        text \in {Caption("Beli SOL"), Caption("Beli All IDR"), Caption("SOL"),
                  Line(<<S_buy, PairOf(C_btc), W_5>>),
                  Line(<<S_cancel, PairOf(C_btc), W_42, W_buy>>)} :
       Handle(sender, text)

HargaKoin == Idle /\ OwnerSends(Caption("Harga Koin"))
CekSaldo == Idle /\ OwnerSends(Caption("Cek Saldo"))
BeliSol == Idle /\ OwnerSends(Caption("Beli SOL"))
JualSol == Idle /\ OwnerSends(Caption("Jual SOL"))
BeliAllIdr == Idle /\ OwnerSends(Caption("Beli All IDR"))
JualAllKeIdr == Idle /\ OwnerSends(Caption("Jual All ke IDR"))
Help == Idle /\ \E name \in HelpCaptions : OwnerSends(Caption(name))
Kembali == Idle /\ OwnerSends(Caption("Kembali"))
PnlButton ==
  Idle /\ \E name \in {"PnL", "Keuntungan/Rugi (PnL)"} : OwnerSends(Caption(name))
CoinButton == Idle /\ \E name \in {"SOL", "BTC"} : OwnerSends(Caption(name))
OrderAktif == Idle /\ OwnerSends(Caption("Order Aktif"))

SolTexts ==
  {S_solbuy, S_solsell, S_solbuyall, S_solsellall, S_sol,
   S_solbuyall \o <<Sp>> \o W_x,
   Line(<<S_solbuy, W_5>>), Line(<<S_solbuy, W_x>>),
   Line(<<S_solbuy, W_5, W_5>>), S_solbuy \o <<Sp>>,
   Line(<<S_solsell, W_5>>), Line(<<S_solsell, W_x>>),
   Line(<<S_solsell, W_5, W_5>>)}

\* /buy and /sell lines: well formed, a pair in capitals, an unknown pair,
\* an amount that is no number, too few and too many words
OrderTexts(command) ==
  {Line(<<command, pair, amount>>) :
     pair \in {PairOf(C_btc), W_BTC_idr, W_foo}, amount \in {W_5, W_x}}
    \cup {Line(<<command, PairOf(C_btc)>>), command \o <<Sp>>,
          Line(<<command, PairOf(C_btc), W_5, W_5>>)}

\* /buyall and /sellall lines
AllTexts(command) ==
  {Line(<<command, C_sol>>), Line(<<command, W_SOL>>), Line(<<command, W_foo>>),
   Line(<<command, C_sol, C_sol>>), command \o <<Sp>>}

CancelTexts ==
  {Line(<<S_cancel, PairOf(C_btc), W_42, W_buy>>),
   Line(<<S_cancel, PairOf(C_btc), W_42_type_sell, W_buy>>),
   Line(<<S_cancel, W_foo, W_x, W_x>>),
   Line(<<S_cancel, PairOf(C_btc), W_42>>),
   Line(<<S_cancel, PairOf(C_btc), W_42, W_buy, W_x>>),
   S_cancel \o <<Sp>>}

UnknownTexts == {W_foo, S_buy, S_cancel, Caption("Menu")}

SolCommand == Idle /\ \E text \in SolTexts : OwnerSends(text)
BuyCommand == Idle /\ \E text \in OrderTexts(S_buy) : OwnerSends(text)
SellCommand == Idle /\ \E text \in OrderTexts(S_sell) : OwnerSends(text)
SellAllCommand == Idle /\ \E text \in AllTexts(S_sellall) : OwnerSends(text)
BuyAllCommand == Idle /\ \E text \in AllTexts(S_buyall) : OwnerSends(text)
CancelCommand == Idle /\ \E text \in CancelTexts : OwnerSends(text)
Unknown == Idle /\ \E text \in UnknownTexts : OwnerSends(text)

\* the exchange's trade history while the bot runs
BotHistories ==
  {[success |-> 0, error |-> "Invalid credentials"],
   [success |-> 1, return |-> [trades |-> <<>>]]}

Init ==
  /\ Constructed
  /\ history \in BotHistories

Next ==
  \/ Tick
  \/ Poll
  \/ StartCommand
  \/ StrangerSends
  \/ HargaKoin
  \/ CekSaldo
  \/ BeliSol
  \/ JualSol
  \/ BeliAllIdr
  \/ JualAllKeIdr
  \/ Help
  \/ Kembali
  \/ PnlButton
  \/ CoinButton
  \/ OrderAktif
  \/ SolCommand
  \/ BuyCommand
  \/ SellCommand
  \/ SellAllCommand
  \/ BuyAllCommand
  \/ CancelCommand
  \/ Unknown

Spec == Init /\ [][Next]_vars

---------------------------------------------------------------------------
(* The PnL request alone: the owner sends the PnL button, the exchange     *)
(* holding any trade history of up to MaxTrades trades.                    *)

Trade(pair, type, price, amount, fee) ==
  [pair |-> pair, type |-> type, price |-> price, amount |-> amount, fee |-> fee]

Trades ==
  {Trade(PairOf(C_btc), "buy", 100, 2, 1),
   Trade(PairOf(C_btc), "buy", 200, 2, 1),
   Trade(PairOf(C_btc), "sell", 300, 4, 2),
   Trade(PairOf(C_btc), "buy", 0, 1, 0),
   Trade(PairOf(C_sol), "buy", 50, 1, 0),
   Trade(PairOf(C_sol), "sell", 40, 1, 1)}

TradeLists == UNION {[1..n -> Trades] : n \in 0..MaxTrades}

HistoryFailures ==
  {[success |-> 0, error |-> "Invalid credentials"],
   [success |-> 0],
   [success |-> 1]}

Histories ==
  {[success |-> 1, return |-> [trades |-> l]] : l \in TradeLists}
    \cup HistoryFailures

InitPnl ==
  /\ Constructed
  /\ history \in Histories

NextPnl ==
  \/ PnlButton
  \/ Poll

SpecPnl == InitPnl /\ [][NextPnl]_vars

---------------------------------------------------------------------------
(* Claims about the PnL computation (checked under SpecPnl).               *)

\* the PnL button was handled
PnlHandled == calls # <<>>

\* the trade history reached the bot and says success with a trade list
HistoryDelivered ==
  /\ PnlHandled
  /\ calls[1].outcome.kind = "json"
  /\ Succeeded(history)
  /\ Has(history, "return")

DeliveredTrades == history["return"].trades

\* the trades of one pair and side in the delivered list
SideOf(pair, side) ==
  LET test(t) == t.pair = pair /\ t.type = side
  IN SelectSeq(DeliveredTrades, test)

AmountOf(pair, side) ==
  LET ts == SideOf(pair, side) IN SumInts([i \in 1..Len(ts) |-> ts[i].amount])

\* sum of price * amount + sign * fee over the trades of one pair and side
ValueOf(pair, side, sign) ==
  LET ts == SideOf(pair, side)
  IN SumInts([i \in 1..Len(ts) |-> ts[i].price * ts[i].amount + sign * ts[i].fee])

\* a = n / d for a fraction a and integers n, d with d > 0
IsQuotient(a, n, d) == a[2] > 0 /\ a[1] * d = n * a[2]

ExampleTrades ==
  <<Trade(PairOf(C_btc), "buy", 100, 2, 1),
    Trade(PairOf(C_btc), "buy", 200, 2, 1),
    Trade(PairOf(C_btc), "sell", 300, 4, 2)>>

\* C4: for every pair of the PnL result, avgBuyPrice is the sum over its buys
\* of price*amount + fee divided by the sum of the buy amounts, avgSellPrice
\* the sum over its sells of price*amount - fee divided by the sum of the sell
\* amounts, the pair's PnL (avgSell - avgBuy) * totalSellAmount and its
\* percentage (avgSell - avgBuy) / avgBuy * 100; the example of the
\* specification gives 150.5, 299.5 and 596.
C4_PnlFormulas ==
  (HistoryDelivered /\ reply.kind = "pnl") =>
    /\ \A i \in 1..Len(reply.per_pair) :
         LET e == reply.per_pair[i]
             ba == AmountOf(e.pair, "buy")
             bc == ValueOf(e.pair, "buy", 1)
             sa == AmountOf(e.pair, "sell")
             sv == ValueOf(e.pair, "sell", -1)
         IN /\ ba > 0 /\ sa > 0 /\ bc > 0
            /\ IsQuotient(e.avg_buy_price, bc, ba)
            /\ IsQuotient(e.avg_sell_price, sv, sa)
            /\ IsQuotient(e.total_pnl_pair, sv * ba - bc * sa, ba)
            /\ IsQuotient(e.pnl_percentage, 100 * (sv * ba - bc * sa), sa * bc)
    /\ DeliveredTrades = ExampleTrades =>
         /\ Len(reply.per_pair) = 1
         /\ reply.per_pair[1].avg_buy_price = <<301, 2>>
         /\ reply.per_pair[1].avg_sell_price = <<599, 2>>
         /\ reply.per_pair[1].total_pnl_pair = <<596, 1>>
         /\ reply.per_pair[1].pnl_percentage = <<29800, 301>>

\* C4 witness: the PnL of the example of the specification was computed.
C4_Witness ==
  /\ HistoryDelivered
  /\ DeliveredTrades = ExampleTrades
  /\ reply.kind = "pnl"
  /\ reply.total_pnl = <<596, 1>>

TradedPairs == {DeliveredTrades[i].pair : i \in 1..Len(DeliveredTrades)}

\* totalSellAmount > 0 and avgBuyPrice > 0 (avgBuyPrice is 0 without buys)
Contributing(pair) ==
  /\ AmountOf(pair, "sell") > 0
  /\ AmountOf(pair, "buy") > 0
  /\ ValueOf(pair, "buy", 1) > 0

\* (avgSell - avgBuy) * totalSellAmount of a contributing pair
PairPnl(pair) ==
  Rat(ValueOf(pair, "sell", -1) * AmountOf(pair, "buy")
        - ValueOf(pair, "buy", 1) * AmountOf(pair, "sell"),
      AmountOf(pair, "buy"))

RECURSIVE SumPairPnl(_)
SumPairPnl(pairs) ==
  IF pairs = {} THEN OfInt(0)
  ELSE LET p == CHOOSE q \in pairs : TRUE
       IN RAdd(PairPnl(p), SumPairPnl(pairs \ {p}))

\* C5: a pair has an entry in the per-pair result if and only if its
\* totalSellAmount > 0 and its avgBuyPrice > 0, it then has exactly one, every
\* other pair has none, and totalPnl is the sum of the pair PnL over exactly
\* the contributing pairs.
C5_OmissionRule ==
  (HistoryDelivered /\ reply.kind = "pnl") =>
    /\ \A p \in TradedPairs :
         Cardinality({i \in 1..Len(reply.per_pair) : reply.per_pair[i].pair = p})
           = IF Contributing(p) THEN 1 ELSE 0
    /\ \A i \in 1..Len(reply.per_pair) : reply.per_pair[i].pair \in TradedPairs
    /\ reply.total_pnl = SumPairPnl({p \in TradedPairs : Contributing(p)})

\* C5 witness: one pair with buys and no sells next to a contributing pair.
C5_Witness ==
  /\ HistoryDelivered
  /\ reply.kind = "pnl"
  /\ AmountOf(PairOf(C_btc), "buy") > 0
  /\ AmountOf(PairOf(C_btc), "sell") = 0
  /\ Len(reply.per_pair) = 1
  /\ reply.per_pair[1].pair = PairOf(C_sol)
  /\ reply.total_pnl = <<-11, 1>>

\* C6: when the trade-history retrieval fails (the network call fails, or the
\* exchange answers with success other than 1) the PnL computation answers
\* with a failure that carries the error text (the exception message, the
\* exchange's error, or 'Unknown error' when the exchange gives none) and no
\* per-pair figure and no total.
C6_RetrievalFailure ==
  PnlHandled =>
    /\ calls[1].outcome.kind = "exc" =>
         reply = Failure("Gagal get trade history", calls[1].outcome.msg)
    /\ (calls[1].outcome.kind = "json" /\ ~Succeeded(history)) =>
         reply = Failure("Gagal get trade history",
                         IF Has(history, "error") THEN history.error
                         ELSE "Unknown error")
    /\ reply.kind = "failure" => ~Has(reply, "per_pair") /\ ~Has(reply, "total_pnl")

\* C6 witness: the exchange refused the trade-history request.
C6_Witness ==
  /\ PnlHandled
  /\ calls[1].outcome.kind = "json"
  /\ history = [success |-> 0, error |-> "Invalid credentials"]
  /\ reply.error = "Invalid credentials"

\* C7: the answer is the 'no trades' message exactly when the retrieval
\* succeeded with an empty trade list; that message is neither a failure nor a
\* PnL result.
C7_NoTrades ==
  PnlHandled =>
    /\ reply = Info("Belum ada transaksi")
         <=> (HistoryDelivered /\ Has(history["return"], "trades")
                /\ Len(DeliveredTrades) = 0)
    /\ reply = Info("Belum ada transaksi") =>
         /\ reply.kind \notin {"failure", "pnl"}
         /\ ~Has(reply, "total_pnl")

\* C7 witness: the retrieval succeeded with an empty trade list.
C7_Witness ==
  /\ HistoryDelivered
  /\ DeliveredTrades = <<>>
  /\ reply.text = "Belum ada transaksi"

---------------------------------------------------------------------------
(* Claims about the message handler (checked under Spec).                  *)

\* a message has been answered
Answered == message # NoMessage

\* the private calls the handler made for the message
PrivateCalls == {i \in 1..Len(calls) : IsPrivate(calls[i])}

\* the replies that show the payload of a private response or report success
PayloadReplies == {"success", "balance", "orders", "pnl"}

\* C9: the response of every private call (balance, order, cancel, open
\* orders, trade history) is checked for success == 1 before it is used: a
\* response that does not say success == 1 ends the handler with a failure
\* reply carrying that response's error text (or 'Unknown error' when it has
\* none), no further call is made after it, and a reply that reports success
\* or shows a payload is sent only when every private response said
\* success == 1.
C9_SuccessChecked ==
  Answered =>
    /\ \A i \in PrivateCalls :
         ~Succeeded(calls[i].ret.value) =>
           /\ i = Len(calls)
           /\ reply.kind = "failure"
           /\ reply.error = ErrorText(calls[i].ret.value)
    /\ reply.kind \in PayloadReplies =>
         \A i \in PrivateCalls :
           /\ calls[i].outcome.kind = "json"
           /\ Succeeded(calls[i].outcome.body)

\* C9 witness: the exchange rejected the order of a sell-all after the balance
\* and the ticker were read, and the owner is told the exchange's error text.
C9_Witness ==
  /\ Answered
  /\ Len(calls) = 3
  /\ calls[3].method = M_trade
  /\ calls[3].outcome = Json([success |-> 0, error |-> "Insufficient balance"])
  /\ reply = Failure("Gagal jual", "Insufficient balance")

\* the pairs <coin>_idr of the supported coins
SupportedPairs == {PairOf(coin) : coin \in supported_coins}

\* the words of a command line after the command itself
Arguments(text) == Tail(SplitWords(text))

IsCommand(text, command) == StartsWith(text, command \o <<Sp>>)

\* an input error: a wrong number of arguments, an amount that is not a
\* number, a pair or a coin that is not supported
InputError(text) ==
  LET args == Arguments(text)
  IN \/ /\ IsCommand(text, S_buy) \/ IsCommand(text, S_sell)
        /\ \/ Len(args) # 2
           \/ ~IsNumber(args[2])
           \/ Lower(args[1]) \notin SupportedPairs
     \/ /\ IsCommand(text, S_solbuy) \/ IsCommand(text, S_solsell)
        /\ Len(args) # 1 \/ ~IsNumber(args[1])
     \/ /\ IsCommand(text, S_buyall) \/ IsCommand(text, S_sellall)
        /\ Len(args) # 1 \/ Lower(args[1]) \notin supported_coins
     \/ /\ IsCommand(text, S_cancel)
        /\ Len(args) # 3 \/ Lower(args[1]) \notin SupportedPairs

\* C10 (as the claim states it): a command of the owner with an input error is
\* answered with a failure and no request, public or private, is sent for it.
\* The handler does not hold this: /buy, /sell and /cancel look the pair up at
\* the exchange, they have no list of pairs to check it against.
C10_InputErrorsNeverReachNetwork ==
  (Answered /\ is_owner(message.sender) /\ InputError(message.text)) =>
    /\ calls = <<>>
    /\ reply.kind = "failure"

\* the menu action a coin button would act on: an absent attribute and None
\* both mean that none is pending (hasattr(...) and self.last_action == ...)
PendingAction(la) == IF la \in {"buy_all", "sell_all"} THEN la ELSE "none"

\* the message answered was sent by someone other than the configured owner
FromStranger(msg) == msg # NoMessage /\ msg.sender # owner_id

\* C11: a message (the /start command or any other text) whose sender is not
\* the configured owner causes no exchange request, public or private, hence
\* no order and no cancel; its only reply is the access-denied message; and
\* answering it leaves the pending menu action as it was.
C11_OnlyOwnerDrives ==
  /\ [](FromStranger(message) => calls = <<>> /\ reply = Denied)
  /\ [][FromStranger(message') =>
          PendingAction(last_action') = PendingAction(last_action)]_vars

\* C11 witness: a stranger typed a well-formed /buy while the owner's
\* 'Beli All IDR' was pending; it was denied and the action is still pending.
C11_Witness ==
  /\ FromStranger(message)
  /\ message.text = Line(<<S_buy, PairOf(C_btc), W_5>>)
  /\ last_action = "buy_all"
  /\ reply = Denied

---------------------------------------------------------------------------
(* Further claims about the client (checked under SpecClient).             *)

\* a client operation has been invoked and has returned
Invoked == reply # NoReply

\* the request failed: in transport, or by a response that says failure
RequestFailed(c) ==
  \/ c.outcome.kind = "exc"
  \/ /\ c.outcome.kind = "json"
     /\ Has(c.outcome.body, "success")
     /\ c.outcome.body.success # 1

\* C12: one invocation of a client operation (getTicker, getBalance,
\* createOrder, getOpenOrders, cancelOrder, getTradeHistory) sends exactly one
\* request and never repeats it: after a transport failure or a failure
\* response the caller gets that failure back and no second request was sent,
\* so one createOrder / cancelOrder puts at most one order request on the wire.
C12_NoRetry ==
  Invoked =>
    /\ Len(calls) = 1
    /\ reply.ret = calls[1].ret
    /\ Cardinality({i \in 1..Len(calls) :
                      calls[i].method \in {M_trade, M_cancelOrder}}) <= 1
    /\ calls[1].outcome.kind = "exc" =>
         /\ reply.ret.kind = "return"
         /\ reply.ret.value.error = calls[1].outcome.msg
    /\ calls[1].outcome.kind = "json" => reply.ret = Return(calls[1].outcome.body)

\* C12 witness: a createOrder whose request timed out came back as a failure
\* after that one request.
C12_Witness ==
  /\ Invoked
  /\ reply.op = "createOrder"
  /\ RequestFailed(calls[1])
  /\ calls[1].outcome = Exc("timed out")
  /\ reply.ret = Return([success |-> 0, error |-> "timed out"])

---------------------------------------------------------------------------
(* The query string alone: _private_request's canonical string, built for  *)
(* every parameter dict of up to MaxParams items in every insertion order. *)

QueryKeys == {<<"a">>, <<"b">>, <<"a", "b">>, <<"B">>}
QueryValues == {<<"1">>, <<"2">>, <<"1", "&", "b", "=", "2">>}

\* the dicts of n items: each key once, in any insertion order
DictsOfSize(n) ==
  {d \in [1..n -> QueryKeys \X QueryValues] :
     \A i \in 1..n, j \in 1..n : i # j => d[i][1] # d[j][1]}

QueryDicts == UNION {DictsOfSize(n) : n \in 0..MaxParams}

InitQuery ==
  /\ Constructed
  /\ history = [success |-> 1, return |-> [trades |-> <<>>]]

\* the query string of one parameter dict is built
BuildQueryString ==
  /\ Idle
  /\ \E params \in QueryDicts :
       reply' = [op |-> "query_string", args |-> params,
                 ret |-> query_string_of(params)]
  /\ UNCHANGED <<clock, turn, calls, last_action, history, message, env, bot, frames, heap>>

NextQuery == BuildQueryString

SpecQuery == InitQuery /\ [][NextQuery]_vars

---------------------------------------------------------------------------
(* Claims about the query string (checked under SpecQuery).                *)

QueryBuilt == reply # NoReply

\* the orderings of the items of dict d
Orderings(d) ==
  {q \in [1..Len(d) -> Items(d)] : \A i, j \in 1..Len(d) : i # j => q[i] # q[j]}

\* the items are in strictly increasing order of their keys
KeysIncrease(q) == \A i, j \in 1..Len(q) : i < j => StrLess(q[i][1], q[j][1])

\* the dict {b: 2, a: 1}, b inserted first
ExampleParams == <<<<<<"b">>, <<"2">>>>, <<<<"a">>, <<"1">>>>>>

\* C13: the query string of a parameter dict is its key=value pairs joined
\* with '&' in lexicographic order of the keys, and every insertion order of
\* the same dict gives that same string; {b: 2, a: 1} gives a=1&b=2.
C13_CanonicalQueryString ==
  QueryBuilt =>
    /\ \E q \in Orderings(reply.args) :
         /\ KeysIncrease(q)
         /\ reply.ret = JoinItems(q)
    /\ \A q \in Orderings(reply.args) : query_string_of(q) = reply.ret
    /\ reply.args = ExampleParams =>
         reply.ret = <<"a", "=", "1", "&", "b", "=", "2">>

\* C13 witness: the query string of {b: 2, a: 1}, b inserted first, was built
\* and starts with a.
C13_Witness ==
  /\ QueryBuilt
  /\ reply.args = ExampleParams
  /\ Head(reply.ret) = "a"

---------------------------------------------------------------------------
(* The order of the trade list                                             *)

\* Trades whose buy costs, 400 + 400 + 200, do not add up to the same float
\* in every order at FloatBits = 5: (400 + 400) + 200 is 992 and
\* (200 + 400) + 400 is 1024.
OrderTrades ==
  {Trade(PairOf(C_btc), "buy", 400, 1, 0),
   Trade(PairOf(C_btc), "buy", 100, 2, 0),
   Trade(PairOf(C_btc), "sell", 300, 1, 0),
   Trade(PairOf(C_sol), "sell", 40, 1, 1)}

OrderTradeLists == UNION {[1..n -> OrderTrades] : n \in 0..MaxTrades}

InitOrder ==
  /\ Constructed
  /\ history \in {[success |-> 1, return |-> [trades |-> l]] : l \in OrderTradeLists}

\* the message of hitung_pnl, with the floats its figures are computed in
with_floats(response, trades) ==
  IF response.kind = "pnl"
  THEN [kind |-> "pnl", text |-> response.text,
        per_pair |-> response.per_pair, total_pnl |-> response.total_pnl,
        computed |-> float_pnl(trades)]
  ELSE response

\* hitung_pnl from the point where get_trade_history has handed back history
ComputePnl ==
  /\ Idle
  /\ reply' = with_floats(pnl_message(history), history["return"].trades)
  /\ UNCHANGED <<clock, turn, calls, last_action, history, message, env, bot, frames, heap>>

NextOrder == ComputePnl

SpecOrder == InitOrder /\ [][NextOrder]_vars

\* the PnL of the trade list was computed
PnlComputed == reply # NoReply /\ reply.kind = "pnl"

Permuted(l, f) == [i \in 1..Len(l) |-> l[f[i]]]

\* every permutation of a trade list
Reorderings(l) == {Permuted(l, f) : f \in Permutations(1..Len(l))}

EntriesOf(figures) == {figures[i] : i \in 1..Len(figures)}

\* the same contributing pairs with the same figures, and the same total
SameResult(a, b) ==
  /\ EntriesOf(a.per_pair) = EntriesOf(b.per_pair)
  /\ a.total_pnl = b.total_pnl

\* the pairs first appear in the same order, and the buys of each pair and
\* the sells of each pair follow each other in the same order
KeepsOrders(l, m) ==
  /\ PairsSeen(l, <<>>) = PairsSeen(m, <<>>)
  /\ \A i \in 1..Len(m) :
       /\ BuysOf(l, m[i].pair) = BuysOf(m, m[i].pair)
       /\ SellsOf(l, m[i].pair) = SellsOf(m, m[i].pair)

---------------------------------------------------------------------------
(* Starting the process: the main block constructs the bot from the        *)
(* environment, and the client operations run once it is constructed.      *)

InitStartup ==
  /\ env \in Envs
  /\ bot = Starting
  /\ frames = NoFrames
  /\ heap = NoDicts
  /\ clock = StartClock
  /\ turn = 0
  /\ calls = <<>>
  /\ reply = NoReply
  /\ last_action = "unset"
  /\ message = NoMessage
  /\ history = [success |-> 1, return |-> [trades |-> <<>>]]

\* bot = TradingBot() of the main block
Main ==
  /\ bot = Starting
  /\ bot' = TradingBot
  /\ UNCHANGED <<clock, turn, calls, reply, last_action, history, message, env,
               frames, heap>>

NextStartup ==
  \/ Main
  \/ NextClient

SpecStartup == InitStartup /\ [][NextStartup]_vars

\* INDODAX_SECRET_KEY is not set, or set to the empty string
SecretMissing ==
  "INDODAX_SECRET_KEY" \notin DOMAIN env \/ env["INDODAX_SECRET_KEY"] = ""

\* C15: no signature is ever computed with an absent or empty secret key:
\* with a missing secret the construction of the bot fails with the
\* configuration error, before any request is built, and nothing is ever
\* sent; with a secret, every private request is signed with it, and no
\* private operation fails to sign.
C15_NoSignatureWithoutSecret ==
  /\ \A i \in 1..Len(calls) :
       IsPrivate(calls[i]) =>
         /\ ~SecretMissing
         /\ calls[i].headers.Sign =
              <<"hmac-sha512", env["INDODAX_SECRET_KEY"], calls[i].data>>
         /\ calls[i].headers.Sign[2] # ""
         /\ calls[i].ret.kind = "return"
  /\ SecretMissing =>
       /\ calls = <<>> /\ reply = NoReply
       /\ bot = Starting
            \/ (bot.state = "stopped" /\ bot.exc = "ValueError")

\* C15 witness: the process was started with every variable but the secret
\* key, and has stopped with the configuration error.
C15_Witness ==
  /\ DOMAIN env = {"BOT_TOKEN", "OWNER_ID", "INDODAX_API_KEY"}
  /\ env["OWNER_ID"] = <<"1">>
  /\ env["INDODAX_API_KEY"] = "API_KEY"
  /\ bot = Stopped("Missing required environment variables")
  /\ calls = <<>>

---------------------------------------------------------------------------
(* Client operations on several threads.  An operation builds its params   *)
(* dict, _private_request stamps it, encodes and signs it, and posts it;   *)
(* the threads take these steps in any interleaving.  A dict lives in the  *)
(* heap and a thread holds a reference to it.                              *)

\* the private operations a thread invokes: the method and the dict the
\* operation builds from its arguments
ThreadOps ==
  {[method |-> M_getInfo, params |-> EmptyDict],
   [method |-> M_trade,
    params |-> order_params(PairOf(C_btc), BUY, 7, 5, IDR)],
   [method |-> M_cancelOrder,
    params |-> Put(Put(Put(EmptyDict, K_pair, PairOf(C_btc)),
                       K_order_id, <<"4", "2">>), K_type, SELL)]}

\* what the network does to the request of a thread
ThreadOutcomes == {Exc("timed out"), Json([success |-> 1])}

\* mutant: every call works on one dict kept between calls
new_dict_shared(t) == 0

\* params = {...} in the operation, params = {} in _private_request: a dict
\* of the call's own
new_dict(t) == t

\* a thread enters an operation, which builds its params
Enter(t) ==
  /\ Running
  /\ frames[t].pc = "idle"
  /\ \E op \in ThreadOps :
       /\ frames' = [frames EXCEPT ![t] =
                       [pc |-> "entered", op |-> op, params |-> new_dict(t)]]
       /\ heap' = [heap EXCEPT ![new_dict(t)] = op.params]
  /\ UNCHANGED <<clock, turn, calls, reply, last_action, history, message,
                 env, bot>>

\* params['method'], params['timestamp'], params['recvWindow'] = ...
Stamp(t) ==
  /\ frames[t].pc = "entered"
  /\ frames' = [frames EXCEPT ![t] =
                  [pc |-> "stamped", op |-> frames[t].op,
                   params |-> frames[t].params, at |-> clock]]
  /\ heap' = [heap EXCEPT ![frames[t].params] =
                private_params(frames[t].op.method, heap[frames[t].params], clock)]
  /\ UNCHANGED <<clock, turn, calls, reply, last_action, history, message,
                 env, bot>>

\* query_string, signature and headers
Encode(t) ==
  /\ frames[t].pc = "stamped"
  /\ frames' = [frames EXCEPT ![t] =
                  [pc |-> "encoded", op |-> frames[t].op,
                   params |-> frames[t].params, at |-> frames[t].at,
                   data |-> query_string_of(heap[frames[t].params]),
                   headers |->
                     [Key |-> api_key,
                      Sign |-> _get_signature(query_string_of(heap[frames[t].params]))]]]
  /\ UNCHANGED <<clock, turn, calls, reply, last_action, history, message,
                 env, bot, heap>>

\* requests.post, and the return to the caller
Post(t) ==
  /\ frames[t].pc = "encoded"
  /\ \E outcome \in ThreadOutcomes :
       /\ frames' = [frames EXCEPT ![t] =
                       [pc |-> "returned", op |-> frames[t].op,
                        at |-> frames[t].at, outcome |-> outcome,
                        ret |-> private_result(outcome)]]
       /\ calls' = Append(calls,
                          [verb |-> "POST", url |-> "/tapi",
                           headers |-> frames[t].headers,
                           data |-> frames[t].data,
                           thread |-> t])
  /\ UNCHANGED <<clock, turn, reply, last_action, history, message, env, bot,
                 heap>>

NextThreads ==
  \/ Tick
  \/ \E t \in Threads : Enter(t)
  \/ \E t \in Threads : Stamp(t)
  \/ \E t \in Threads : Encode(t)
  \/ \E t \in Threads : Post(t)

InitThreads ==
  /\ Constructed
  /\ history = [success |-> 1, return |-> [trades |-> <<>>]]

SpecThreads == InitThreads /\ [][NextThreads]_vars

\* the request the operation of thread t sends when it runs alone, reading
\* the clock when t read it
AloneRequest(t) ==
  _private_request(frames[t].op.method, frames[t].op.params, frames[t].at,
                   Exc("none"))

\* the dict of thread t holds what t itself put there
OwnParams(t) ==
  /\ frames[t].pc = "entered" => heap[frames[t].params] = frames[t].op.params
  /\ frames[t].pc \in {"stamped", "encoded"} =>
       heap[frames[t].params] =
         private_params(frames[t].op.method, frames[t].op.params, frames[t].at)

\* what thread t sends is what its operation sends when it runs alone
OwnRequest(t) ==
  /\ frames[t].pc = "encoded" =>
       /\ frames[t].data = AloneRequest(t).data
       /\ frames[t].headers = AloneRequest(t).headers
  /\ frames[t].pc = "returned" =>
       \E i \in 1..Len(calls) :
         /\ calls[i].thread = t
         /\ calls[i].data = AloneRequest(t).data
         /\ calls[i].headers = AloneRequest(t).headers
         /\ \A j \in 1..Len(calls) : calls[j].thread = t => j = i

\* C16: client operations share no mutable state: in every interleaving of
\* concurrent operations, the parameters, body and signature of each
\* request are those of the call running alone with its own arguments, the
\* credentials and its own clock reading, whatever the other calls in
\* flight do; the credentials are never written after construction.
C16_NoSharedMutableState ==
  /\ [](\A t \in Threads : OwnParams(t) /\ OwnRequest(t))
  /\ [][bot' = bot]_vars

\* C16 witness: a trade was posted after a cancelOrder entered, stamped its
\* dict at another clock reading, and before it posted.
C16_Witness ==
  /\ frames[1].pc = "returned"
  /\ frames[1].op.method = M_trade
  /\ frames[2].pc = "encoded"
  /\ frames[2].op.method = M_cancelOrder
  /\ frames[2].at # frames[1].at
  /\ Len(calls) = 1

---------------------------------------------------------------------------
(* The pending menu action, with the handlers of messages running on the   *)
(* worker threads of the dispatcher.  The handler of a coin button reads   *)
(* last_action, runs the operation it selects, which waits for the         *)
(* exchange, and only then resets last_action; another worker handles the  *)
(* next message meanwhile.                                                 *)

\* a worker starts on a coin button of the owner: last_action is
\* initialized, and read for the choice between buy-all, sell-all and price
CoinBegin(w) ==
  /\ Running
  /\ frames[w].pc = "idle"
  /\ \E name \in {"SOL", "BTC"} :
       frames' = [frames EXCEPT ![w] =
                    [pc |-> "coin", text |-> Caption(name),
                     la |-> initialized(last_action)]]
  /\ last_action' = initialized(last_action)
  /\ UNCHANGED <<clock, turn, calls, reply, history, message, env, bot, heap>>

\* the worker comes back from the exchange: self.last_action = None after
\* a buy-all or sell-all, and the reply is sent
CoinFinish(w) ==
  /\ Idle
  /\ frames[w].pc = "coin"
  /\ Answer(owner_id, frames[w].text, frames[w].la, w)

NextWorkers ==
  \/ Poll
  \/ BeliAllIdr
  \/ JualAllKeIdr
  \/ Kembali
  \/ \E w \in Threads : CoinBegin(w)
  \/ \E w \in Threads : CoinFinish(w)

SpecWorkers == Init /\ [][NextWorkers]_vars

\* the step in which the answer to a message of the owner is sent
OwnerAnswered ==
  /\ reply = NoReply
  /\ reply' # NoReply
  /\ message' # NoMessage
  /\ message'.sender = owner_id

\* cs are the requests of buy-all (type buy) or sell-all (type sell) of coin:
\* the balance first, and no ticker or order of another pair or side
RanAll(cs, type, coin) ==
  /\ cs # <<>>
  /\ cs[1].verb = "POST" /\ cs[1].method = M_getInfo
  /\ \A i \in 1..Len(cs) :
       /\ cs[i].verb = "GET" => cs[i].url = <<"/api/ticker/", PairOf(coin)>>
       /\ cs[i].method = M_trade =>
            /\ Lookup(cs[i].extra, K_pair) = PairOf(coin)
            /\ Lookup(cs[i].extra, K_type) = type

\* cs is the one request of the price of coin
PriceOnly(cs, coin) ==
  /\ Len(cs) = 1
  /\ cs[1].verb = "GET"
  /\ cs[1].url = <<"/api/ticker/", PairOf(coin)>>

\* C17: a coin button of the owner runs buy-all (sell-all) for its coin
\* exactly when the pending action, set by the most recent 'Beli All IDR'
\* ('Jual All ke IDR') press and reset by every coin button handled since,
\* is buy_all (sell_all); handling it leaves no pending action; with none
\* pending the coin button only fetches the price; the two menu buttons set
\* the pending action and every other message leaves it as it is.
C17_PendingMenuAction ==
  [][OwnerAnswered =>
       LET text == message'.text
           pending == PendingAction(last_action)
       IN IF IsCoinButton(text)
          THEN /\ PendingAction(last_action') = "none"
               /\ pending = "buy_all" => RanAll(calls', BUY, coin_map[text[1]])
               /\ pending = "sell_all" => RanAll(calls', SELL, coin_map[text[1]])
               /\ pending = "none" => PriceOnly(calls', coin_map[text[1]])
          ELSE IF text = Caption("Beli All IDR")
          THEN last_action' = "buy_all" /\ calls' = <<>>
          ELSE IF text = Caption("Jual All ke IDR")
          THEN last_action' = "sell_all" /\ calls' = <<>>
          ELSE PendingAction(last_action') = pending]_vars

\* C17, one menu press triggers at most one buy-all or sell-all: a coin
\* button runs buy-all or sell-all only while an action is pending, that
\* is, after a menu press that no handled coin button has used up.
C17_OnePressOneRun ==
  [][(/\ OwnerAnswered
      /\ IsCoinButton(message'.text)
      /\ calls' # <<>>
      /\ calls'[1].verb = "POST")
       => PendingAction(last_action) # "none"]_vars

---------------------------------------------------------------------------
(* Orders the exchange accepted                                            *)

\* the exchange answered the order request c with success == 1
OrderAccepted(c) ==
  /\ c.method = M_trade
  /\ c.outcome.kind = "json"
  /\ Succeeded(c.outcome.body)

\* C18: whenever the order request made for a command (/buy, /sell,
\* /solbuy, /solsell, buy-all, sell-all) returned success == 1, the reply to
\* the operator is the success message, whatever the ticker price (0
\* included) and the shape of the success payload; the operator is never
\* told of a failure or an error after the exchange accepted the order.
C18_AcceptedOrderReportedAsSuccess ==
  (Answered /\ \E i \in 1..Len(calls) : OrderAccepted(calls[i]))
    => reply.kind = "success"

---------------------------------------------------------------------------
(* Buy-all and sell-all                                                    *)

\* the messages that run beli_semua_idr, last_action holding la
BuyAllRun(text, la) ==
  \/ text \in {Caption("Beli SOL"), S_solbuyall,
               Line(<<S_buyall, C_sol>>), Line(<<S_buyall, W_SOL>>)}
  \/ IsCoinButton(text) /\ la = "buy_all"

\* the messages that run jual_semua, last_action holding la
SellAllRun(text, la) ==
  \/ text \in {Caption("Jual SOL"), S_solsellall,
               Line(<<S_sellall, C_sol>>), Line(<<S_sellall, W_SOL>>)}
  \/ IsCoinButton(text) /\ la = "sell_all"

\* the coin the message names
AllCoin(text) == IF IsCoinButton(text) THEN coin_map[text[1]] ELSE C_sol

\* cs are the calls of a buy-all or sell-all of coin: the balance; the
\* ticker of the pair, only after a balance response with success == 1
\* whose balance under key is above floor; the order, only after a ticker
\* response with a ticker, for the whole balance under key
AllCalls(cs, type, coin, key, floor) ==
  /\ Len(cs) \in 1..3
  /\ cs[1].verb = "POST" /\ cs[1].method = M_getInfo
  /\ \A i \in 2..Len(cs) : cs[i].method # M_getInfo
  /\ Len(cs) >= 2 =>
       /\ cs[1].outcome.kind = "json"
       /\ Succeeded(cs[1].outcome.body)
       /\ Has2(cs[1].outcome.body, "return", "balance")
       /\ key \in DOMAIN cs[1].outcome.body["return"].balance
       /\ cs[1].outcome.body["return"].balance[key] > floor
       /\ cs[2].verb = "GET"
       /\ cs[2].url = <<"/api/ticker/", PairOf(coin)>>
  /\ Len(cs) = 3 =>
       /\ cs[2].outcome.kind = "json"
       /\ Has(cs[2].outcome.body, "ticker")
       /\ cs[3].method = M_trade
       /\ Keys(cs[3].extra) = {K_pair, K_type, K_price, key}
       /\ Lookup(cs[3].extra, K_pair) = PairOf(coin)
       /\ Lookup(cs[3].extra, K_type) = type
       /\ Lookup(cs[3].extra, key) =
            FloatStr(cs[1].outcome.body["return"].balance[key])

---------------------------------------------------------------------------
(* Reading the query string back                                           *)

\* the keys and values a body splits into on '&' and '=': none for an
\* empty body
ReadBack(body) == IF body = <<>> THEN <<>> ELSE ParseQuery(body)

\* C20: the canonical query string determines the parameter map: no other
\* parameter map gives the same body, and parsing the body on '&' and '='
\* gives back exactly the keys and values that were put in, so the text of
\* a value cannot add or override a parameter of the signed request.
C20_QueryStringDeterminesParams ==
  QueryBuilt =>
    /\ Items(ReadBack(reply.ret)) = Items(reply.args)
    /\ \A d \in QueryDicts :
         query_string_of(d) = reply.ret => Items(d) = Items(reply.args)

=============================================================================
